---- MODULE Spec2Model ----
(***************************************************************************)
(* Model of polyglot-pigeon: the outbound EmailSender (mail/sender.py),    *)
(* the EmailScheduler with its reader sessions (scheduler/scheduler.py,    *)
(* mail/reader.py, scheduler/pipeline.py) and the ConfigLoader (config.py).*)
(***************************************************************************)
EXTENDS Integers, Sequences, FiniteSets, TLC

(***************************************************************************)
(* Bounds of the model                                                     *)
(***************************************************************************)
\* largest configured retry_count explored (the field is an unbounded int)
MaxRetry == 2
\* number of EmailSender API calls (connect/send/disconnect) in one run
MaxSenderCalls == 3

\* retry_count values: the field has no lower bound (configurations.py:60)
RetryCounts == (0 - 1) .. MaxRetry

(***************************************************************************)
(* Exceptions.  Python matches "except <classes>" by isinstance, so the    *)
(* class hierarchy of the exceptions the SMTP primitives raise matters.    *)
(***************************************************************************)
NoExc == "None"

\* direct base class of each exception class that can reach the handlers
ExcParent(e) ==
    CASE e = "TimeoutError"            -> "OSError"
      [] e = "SMTPAuthenticationError" -> "SMTPException"
      [] e = "SMTPServerDisconnected"  -> "SMTPException"
      [] e = "SMTPException"           -> "OSError"
      [] e = "OSError"                 -> "Exception"
      [] e = "RuntimeError"            -> "Exception"
      [] e = "TypeError"               -> "Exception"
      [] e = "IMAP4.error"             -> "Exception"
      [] e = "ValueError"              -> "Exception"
      [] e = "LookupError"             -> "Exception"
      [] OTHER                         -> "BaseException"

RECURSIVE IsInstance(_, _)
IsInstance(e, cls) ==
    IF e = cls THEN TRUE
    ELSE IF e = "BaseException" \/ e = NoExc THEN FALSE
    ELSE IsInstance(ExcParent(e), cls)

\* sender.py:12 (socket.timeout is the same class as TimeoutError)
RETRYABLE_EXCEPTIONS == {"TimeoutError", "OSError"}

\* Retryable with a fault: only timeouts are retried
RetryableOnlyTimeout(e) == IsInstance(e, "TimeoutError")

\* "except RETRYABLE_EXCEPTIONS as e" catches e
Retryable(e) == \E cls \in RETRYABLE_EXCEPTIONS : IsInstance(e, cls)

(***************************************************************************)
(* The environment: what the SMTP primitives can do on one attempt         *)
(***************************************************************************)
\* stage at which a connection attempt ends, with what it can raise there
ConnectOutcomes ==
    {[stage |-> "ok", exc |-> NoExc]}
    \cup [stage : {"SMTP"}, exc : {"TimeoutError", "OSError"}]
    \cup [stage : {"starttls"}, exc : {"TimeoutError", "RuntimeError"}]
    \cup [stage : {"login"}, exc : {"SMTPAuthenticationError"}]

SendOutcomes ==
    [stage : {"ok"}, exc : {NoExc}]
    \cup [stage : {"send_message"},
          exc : {"TimeoutError", "SMTPException", "ValueError"}]

QuitOutcomes == {NoExc, "SMTPException", "SMTPServerDisconnected"}

\* value of sQuit when the call made no quit()
NotCalled == "not called"

VARIABLES
    retry_count,        \* config.retry_count
    sender_connection,  \* EmailSender._connection: 0 is None, else a session
    sPc,                \* "idle", "connect", "send": the call in progress
    attempt,            \* loop variable of the retry loop in progress
    last_exception,     \* local last_exception of the call in progress
    sRes,               \* how the last call ended
    sHist,              \* outcomes of the attempts of the current/last call
    sSleeps,            \* time.sleep calls made by the current/last call
    sSmtpCalls,         \* smtplib.SMTP() invocations by the current/last call
    sSubmits,           \* send_message invocations by the current/last call
    sTotalSmtp,         \* smtplib.SMTP() invocations since construction
    sOpen,              \* relay sessions opened and never quit
    sConnectedOk,       \* a connect() returned since construction/disconnect
    sConnAtCall,        \* _connection when the current/last call began
    sSmtpAtCall,        \* sTotalSmtp when the current/last call began
    sCalls,             \* API calls made so far
    sQuit               \* what quit() did in the current/last call

senderVars == <<retry_count, sender_connection, sPc, attempt, last_exception,
                sRes, sHist, sSleeps, sSmtpCalls, sSubmits, sTotalSmtp,
                sOpen, sConnectedOk, sConnAtCall, sSmtpAtCall, sCalls,
                sQuit>>

VARIABLES
    mode,              \* main(): "daemon" (--daemon) or "run_once" (--run-once)
    cfg_enabled,       \* config.schedule.enabled
    cfg_mark_as_read,  \* config.source_email.mark_as_read
    pipelineKind,      \* class of self.pipeline
    running,           \* EmailScheduler._running
    handlers,          \* signal handlers installed
    jobs,              \* jobs registered in the schedule module
    due,               \* the daily trigger time has passed since the last run
    fires,             \* trigger firings so far
    jobsLeft,          \* due jobs run_pending() still has to run
    shutdownBy,        \* "none", "signal" or "stop": shutdown request received
    lateCycles,        \* cycles the loop started while _running was false
    dPc,               \* position of start()
    cPc,               \* position of the run_once() in progress
    cCaller,           \* "main" or "job": who called run_once()
    cExc,              \* exception in flight inside a "with" body
    cEmails,           \* local emails of run_once()
    cResult,           \* local result of run_once()
    cOutcome,          \* how the last run_once() ended
    log,               \* events of the current/last cycle, in order
    cMarkSteps,        \* arguments of the _mark_emails_processed calls
    cReaderMarks,      \* arguments of the reader.mark_as_read calls
    cSessions,         \* reader sessions opened by the current/last cycle
    active,            \* run_once() invocations in progress
    cycles,            \* run_once() invocations so far
    loggedErrors,      \* errors logged by _job
    reader_connection, \* EmailReader._connection of the live reader, 0 = None
    rOpen,             \* reader sessions opened and not logged out
    rNext,             \* reader sessions created so far
    mailbox            \* seen flag of each message, by sequence number

cfgVars == <<mode, cfg_enabled, cfg_mark_as_read, pipelineKind>>
daemonVars == <<running, handlers, jobs, due, fires, jobsLeft, shutdownBy,
               lateCycles>>
cycleVars == <<cPc, cCaller, cExc, cEmails, cResult, cOutcome, log,
               cMarkSteps, cReaderMarks, cSessions, active, cycles,
               loggedErrors>>
readerVars == <<reader_connection, rOpen, rNext, mailbox>>
schedulerVars == <<cfgVars, daemonVars, dPc, cycleVars, readerVars>>

VARIABLES
    utc,          \* the instant, in ticks
    localOff,     \* offset of the process's local timezone from UTC
    tzOff,        \* offset of config.schedule.timezone from UTC
    at_time,      \* config.schedule.time, as a tick of the day
    next_run,     \* Job.next_run, a local naive datetime; -1 before start()
    lastDue       \* the instant at which the job last run became due

clockVars == <<utc, localOff, tzOff, at_time, next_run, lastDue>>

VARIABLES
    pKind,        \* class of the pipeline whose process() is called
    pEmails,      \* argument emails of process()
    pPc,          \* "idle", "loop", "done": position of process()
    pIdx,         \* messages the for loop has gone through
    pSent,        \* local emails_sent
    pErrors,      \* local errors
    pHandled,     \* uids whose loop body was entered, in order
    pOutcomes,    \* what the body raised for each of them
    pClient,      \* create_llm_client() was called
    pCompletions, \* completion calls made on the client
    pSends,       \* uids delivered by an EmailSender.send() that returned
    pResult,      \* the ProcessingResult returned
    pRaised       \* the exception process() raised

pipeVars == <<pKind, pEmails, pPc, pIdx, pSent, pErrors, pHandled, pOutcomes,
              pClient, pCompletions, pSends, pResult, pRaised>>

VARIABLES
    fetch_days,   \* config.fetch_days
    inbox,        \* the folder on the server
    rdConn,       \* EmailReader._connection: 0 is None, 1 an IMAP4_SSL object
    rdAuth,       \* login() succeeded on that connection
    rdHeld,       \* a connect() returned and no disconnect() came since
    rdCall,       \* the last call: operation, arguments, _connection then
    rdRes,        \* how the last call ended, and what it returned
    rdOps,        \* commands the last call sent to the server, in order,
                  \* a SEARCH with the status the server answered
    rdIds,        \* ids the last search returned
    rdOuts,       \* what the server did for each FETCH or STORE of the call
    rdCalls       \* calls made so far

rdVars == <<fetch_days, inbox, rdConn, rdAuth, rdHeld, rdCall, rdRes, rdOps,
            rdIds, rdOuts, rdCalls>>

VARIABLES
    runMark,      \* config.source_email.mark_as_read
    runNow,       \* the day of datetime.now(timezone.utc)
    runs          \* what each run_once() so far fetched and marked

runVars == <<runMark, runNow, runs>>

VARIABLES
    files,            \* what is at each path of the file system
    loader_instance,  \* ConfigLoader._instance: 0 is None
    loader_config,    \* _config of the instance: 0 is None, else a Config
    ldMade,           \* Config objects constructed so far
    ldOpens,          \* files opened so far
    ldRes,            \* the last call and how it ended
    ldPrev,           \* the call before it
    ldCalls           \* calls made so far

ldVars == <<files, loader_instance, loader_config, ldMade, ldOpens, ldRes,
            ldPrev, ldCalls>>

VARIABLES
    folder,       \* the folder on the server, in sequence-number order
    sessPc,       \* where the cycle is: start, between its sessions, done
    sessUids,     \* the uids of the emails the fetch session returned
    sessFetched,  \* the messages those emails were read from
    sessStored,   \* the messages the mark session set \Seen on
    sessRaised,   \* the exception mark_as_read raised
    sessArrived,  \* messages delivered since the cycle started
    sessChanges   \* changes other clients made between the sessions

sessVars == <<folder, sessPc, sessUids, sessFetched, sessStored, sessRaised,
              sessArrived, sessChanges>>

\* what each component leaves alone
outsideSender == <<schedulerVars, clockVars, pipeVars, rdVars, runVars,
    ldVars, sessVars>>
outsideScheduler == <<senderVars, clockVars, pipeVars, rdVars, runVars,
    ldVars, sessVars>>
outsideClock == <<senderVars, schedulerVars, pipeVars, rdVars, runVars,
    ldVars, sessVars>>
outsidePipeline == <<senderVars, schedulerVars, clockVars, rdVars, runVars,
    ldVars, sessVars>>
outsideReader == <<senderVars, schedulerVars, clockVars, pipeVars, runVars,
    ldVars, sessVars>>
outsideRuns == <<senderVars, schedulerVars, clockVars, pipeVars, ldVars,
                 sessVars>>
outsideLoader == <<senderVars, schedulerVars, clockVars, pipeVars, rdVars,
                   runVars, sessVars>>
outsideSessions == <<senderVars, schedulerVars, clockVars, pipeVars, rdVars,
                     runVars, ldVars>>

vars == <<senderVars, schedulerVars, clockVars, pipeVars, rdVars, runVars,
          ldVars, sessVars>>

NoRes == [op |-> "none", status |-> "none", exc |-> NoExc]
Returned(op) == [op |-> op, status |-> "returned", exc |-> NoExc]
Raised(op, e) == [op |-> op, status |-> "raised", exc |-> e]

\* EmailSender.__init__
SenderInit ==
    /\ retry_count \in RetryCounts
    /\ sender_connection = 0
    /\ sPc = "idle"
    /\ attempt = 0
    /\ last_exception = NoExc
    /\ sRes = NoRes
    /\ sHist = <<>>
    /\ sSleeps = 0
    /\ sSmtpCalls = 0
    /\ sSubmits = 0
    /\ sTotalSmtp = 0
    /\ sOpen = {}
    /\ sConnectedOk = FALSE
    /\ sConnAtCall = 0
    /\ sSmtpAtCall = 0
    /\ sCalls = 0
    /\ sQuit = NotCalled

\* "raise last_exception": raising None is a TypeError
RaiseOf(e) == IF e = NoExc THEN "TypeError" ELSE e

\* ConnectRange with a fault: range(retry_count)
ConnectRangeShort(R) == 0 .. (R - 1)

\* range(self.config.retry_count + 1)
ConnectRange(R) == 0 .. R

\* ConnectSleeps with a fault: the delay is also taken after the last attempt
ConnectSleepsAlways(a, R) == a <= R

\* "if attempt < self.config.retry_count" guarding time.sleep
ConnectSleeps(a, R) == a < R

\* SendRange with a fault: range(retry_count + 2)
SendRangeLong(R) == 0 .. (R + 1)

\* range(self.config.retry_count + 1) in send()
SendRange(R) == 0 .. R

\* SendSleeps with a fault: the delay is also taken after the last attempt
SendSleepsAlways(a, R) == a <= R

\* "if attempt < self.config.retry_count" in send()
SendSleeps(a, R) == a < R

\* common start of an API call
BeginCall(op) ==
    /\ sPc = "idle"
    /\ sCalls < MaxSenderCalls
    /\ sCalls' = sCalls + 1
    /\ sHist' = <<>>
    /\ sSleeps' = 0
    /\ sSmtpCalls' = 0
    /\ sSubmits' = 0
    /\ sConnAtCall' = sender_connection
    /\ sSmtpAtCall' = sTotalSmtp

\* connect(): entry; an empty range falls through to "raise last_exception"
ConnectCall ==
    /\ BeginCall("connect")
    /\ sQuit' = NotCalled
    /\ attempt' = 0
    /\ last_exception' = NoExc
    /\ IF ConnectRange(retry_count) = {}
         THEN /\ sPc' = "idle"
              /\ sRes' = Raised("connect", RaiseOf(NoExc))
         ELSE /\ sPc' = "connect"
              /\ sRes' = NoRes
    /\ UNCHANGED outsideSender
    /\ UNCHANGED <<retry_count, sender_connection, sTotalSmtp, sOpen,
                   sConnectedOk>>

\* session created by the next smtplib.SMTP() call
FreshSession == sTotalSmtp + 1

\* connect(): one iteration of the retry loop, the except clause included,
\* and the final raise when the loop is exhausted
ConnectAttempt ==
    /\ sPc = "connect"
    /\ attempt \in ConnectRange(retry_count)
    /\ \E o \in ConnectOutcomes :
         LET opened == o.stage # "SMTP"
             sid    == IF opened THEN FreshSession ELSE 0
             last   == (attempt + 1) \notin ConnectRange(retry_count)
         IN
         /\ sTotalSmtp' = sTotalSmtp + 1
         /\ sSmtpCalls' = sSmtpCalls + 1
         /\ sHist' = Append(sHist, [stage |-> o.stage, exc |-> o.exc,
                                    sess |-> sid])
         /\ sender_connection' = IF opened THEN sid ELSE sender_connection
         /\ sOpen' = IF opened THEN sOpen \cup {sid} ELSE sOpen
         /\ IF o.stage = "ok"
              THEN /\ sPc' = "idle"
                   /\ sRes' = Returned("connect")
                   /\ sConnectedOk' = TRUE
                   /\ UNCHANGED <<attempt, last_exception, sSleeps>>
              ELSE IF Retryable(o.exc)
              THEN /\ last_exception' = o.exc
                   /\ sSleeps' = IF ConnectSleeps(attempt, retry_count)
                                   THEN sSleeps + 1 ELSE sSleeps
                   /\ attempt' = attempt + 1
                   /\ IF last
                        THEN /\ sPc' = "idle"
                             /\ sRes' = Raised("connect", RaiseOf(o.exc))
                        ELSE /\ sPc' = "connect"
                             /\ sRes' = NoRes
                   /\ UNCHANGED sConnectedOk
              ELSE /\ sPc' = "idle"
                   /\ sRes' = Raised("connect", o.exc)
                   /\ UNCHANGED <<attempt, last_exception, sSleeps,
                                  sConnectedOk>>
    /\ UNCHANGED outsideSender
    /\ UNCHANGED <<retry_count, sSubmits, sConnAtCall, sSmtpAtCall, sCalls,
                   sQuit>>

\* DisconnectCatches with a fault: only a lost connection is tolerated
DisconnectCatchesLostOnly(e) == IsInstance(e, "SMTPServerDisconnected")

\* disconnect(): "except smtplib.SMTPException as e"
DisconnectCatches(e) == IsInstance(e, "SMTPException")

\* disconnect(): quit() under try/except/finally when a connection is held
Disconnect ==
    /\ BeginCall("disconnect")
    /\ sPc' = "idle"
    /\ sConnectedOk' = FALSE
    /\ IF sender_connection # 0
         THEN \E q \in QuitOutcomes :
                /\ sQuit' = q
                /\ sOpen' = sOpen \ {sender_connection}
                /\ sender_connection' = 0
                /\ sRes' = IF q = NoExc \/ DisconnectCatches(q)
                             THEN Returned("disconnect")
                             ELSE Raised("disconnect", q)
         ELSE /\ sQuit' = NotCalled
              /\ sRes' = Returned("disconnect")
              /\ UNCHANGED <<sender_connection, sOpen>>
    /\ UNCHANGED outsideSender
    /\ UNCHANGED <<retry_count, attempt, last_exception, sTotalSmtp>>

\* send(): entry, the connection check and the message composition
SendCall ==
    /\ BeginCall("send")
    /\ sQuit' = NotCalled
    /\ attempt' = 0
    /\ last_exception' = NoExc
    /\ IF sender_connection = 0
         THEN /\ sPc' = "idle"
              /\ sRes' = Raised("send", "RuntimeError")
         ELSE IF SendRange(retry_count) = {}
         THEN /\ sPc' = "idle"
              /\ sRes' = Raised("send", RaiseOf(NoExc))
         ELSE /\ sPc' = "send"
              /\ sRes' = NoRes
    /\ UNCHANGED outsideSender
    /\ UNCHANGED <<retry_count, sender_connection, sTotalSmtp, sOpen,
                   sConnectedOk>>

\* send(): one iteration of the retry loop and the final raise
SendAttempt ==
    /\ sPc = "send"
    /\ attempt \in SendRange(retry_count)
    /\ \E o \in SendOutcomes :
         LET last == (attempt + 1) \notin SendRange(retry_count) IN
         /\ sSubmits' = sSubmits + 1
         /\ sHist' = Append(sHist, [stage |-> o.stage, exc |-> o.exc,
                                    sess |-> sender_connection])
         /\ IF o.stage = "ok"
              THEN /\ sPc' = "idle"
                   /\ sRes' = Returned("send")
                   /\ UNCHANGED <<attempt, last_exception, sSleeps>>
              ELSE IF Retryable(o.exc)
              THEN /\ last_exception' = o.exc
                   /\ sSleeps' = IF SendSleeps(attempt, retry_count)
                                   THEN sSleeps + 1 ELSE sSleeps
                   /\ attempt' = attempt + 1
                   /\ IF last
                        THEN /\ sPc' = "idle"
                             /\ sRes' = Raised("send", RaiseOf(o.exc))
                        ELSE /\ sPc' = "send"
                             /\ sRes' = NoRes
              ELSE /\ sPc' = "idle"
                   /\ sRes' = Raised("send", o.exc)
                   /\ UNCHANGED <<attempt, last_exception, sSleeps>>
    /\ UNCHANGED outsideSender
    /\ UNCHANGED <<retry_count, sender_connection, sSmtpCalls, sTotalSmtp,
                   sOpen, sConnectedOk, sConnAtCall, sSmtpAtCall, sCalls,
                sQuit>>

(***************************************************************************)
(* The scheduler: configuration, mailbox, reader sessions, one cycle       *)
(***************************************************************************)
\* messages in the source mailbox
MaxMail == 2
\* run_once() cycles (and trigger firings) in one run
MaxCycles == 2

\* bytes and str values are kept apart: ids travel as bytes on the wire
\* and as str in Email.uid
Decode(b) == <<"str", b[2]>>
Encode(s) == <<"bytes", s[2]>>

NoResult == [emails_processed |-> 0 - 1, emails_sent |-> 0, errors |-> <<>>]
NoOutcome == [status |-> "none", exc |-> NoExc]

Mailboxes == UNION {[1 .. n -> BOOLEAN] : n \in 0 .. MaxMail}

\* EmailScheduler.__init__, with the configuration and the mailbox it meets
SchedulerInit ==
    /\ mode \in {"daemon", "run_once"}
    /\ cfg_enabled \in BOOLEAN
    /\ cfg_mark_as_read \in BOOLEAN
    /\ pipelineKind \in {"PlaceholderPipeline", "EmailProcessingPipeline"}
    /\ running = FALSE
    /\ handlers = FALSE
    /\ jobs = 0
    /\ due = FALSE
    /\ fires = 0
    /\ jobsLeft = 0
    /\ shutdownBy = "none"
    /\ lateCycles = 0
    /\ dPc = "init"
    /\ cPc = "idle"
    /\ cCaller = "main"
    /\ cExc = NoExc
    /\ cEmails = <<>>
    /\ cResult = NoResult
    /\ cOutcome = NoOutcome
    /\ log = <<>>
    /\ cMarkSteps = <<>>
    /\ cReaderMarks = <<>>
    /\ cSessions = {}
    /\ active = 0
    /\ cycles = 0
    /\ loggedErrors = 0
    /\ reader_connection = 0
    /\ rOpen = {}
    /\ rNext = 0
    /\ mailbox \in Mailboxes

\* JobCatches with a fault: only protocol errors are caught
JobCatchesProtocolOnly(e) == IsInstance(e, "IMAP4.error")

\* _job: "except Exception as e"
JobCatches(e) == IsInstance(e, "Exception")

\* the end of run_once(): return (exc = NoExc) or raise, back in the caller
EndCycle(exc) ==
    /\ cPc' = "idle"
    /\ active' = active - 1
    /\ cOutcome' = IF exc = NoExc
                     THEN [status |-> "returned", exc |-> NoExc]
                     ELSE [status |-> "raised", exc |-> exc]
    /\ IF cCaller = "job"
         THEN IF exc = NoExc
                THEN dPc' = "run_pending" /\ UNCHANGED loggedErrors
              ELSE IF JobCatches(exc)
                THEN dPc' = "run_pending" /\ loggedErrors' = loggedErrors + 1
              ELSE dPc' = "crashed" /\ UNCHANGED loggedErrors
         ELSE UNCHANGED <<dPc, loggedErrors>>

\* entry of run_once()
BeginCycle(caller) ==
    /\ cycles < MaxCycles
    /\ cycles' = cycles + 1
    /\ active' = active + 1
    /\ cPc' = "fetch_connect"
    /\ cCaller' = caller
    /\ cExc' = NoExc
    /\ cEmails' = <<>>
    /\ cResult' = NoResult
    /\ cOutcome' = NoOutcome
    /\ log' = <<>>
    /\ cMarkSteps' = <<>>
    /\ cReaderMarks' = <<>>
    /\ cSessions' = {}

\* main(): scheduler.run_once() in run-once mode
RunOnceMain ==
    /\ mode = "run_once"
    /\ cPc = "idle"
    /\ BeginCycle("main")
    /\ UNCHANGED outsideScheduler
    /\ UNCHANGED <<cfgVars, daemonVars, dPc, loggedErrors, readerVars>>

ReaderConnectOutcomes == {"ok", "IMAP4_SSL", "login"}

\* "with EmailReader(...) as reader": __enter__ calls connect(); when it
\* raises, __exit__ is not run
ReaderEnter(bodyPc) ==
    \E o \in ReaderConnectOutcomes :
      LET sid == rNext + 1 IN
      IF o = "IMAP4_SSL"
        THEN /\ EndCycle("OSError")
             /\ UNCHANGED <<reader_connection, rOpen, rNext, log, cSessions>>
        ELSE /\ rNext' = sid
             /\ rOpen' = rOpen \cup {sid}
             /\ cSessions' = cSessions \cup {sid}
             /\ log' = Append(log, <<"open", sid>>)
             /\ IF o = "login"
                  THEN /\ reader_connection' = 0
                       /\ EndCycle("IMAP4.error")
                  ELSE /\ reader_connection' = sid
                       /\ cPc' = bodyPc
                       /\ UNCHANGED <<active, cOutcome, dPc, loggedErrors>>

\* FetchConnect with a fault: the cycle clears the running flag
FetchConnectClearsRunning ==
    /\ cPc = "fetch_connect"
    /\ ReaderEnter("fetch")
    /\ running' = FALSE
    /\ UNCHANGED outsideScheduler
    /\ UNCHANGED lateCycles
    /\ UNCHANGED <<cfgVars, handlers, jobs, due, fires, jobsLeft, shutdownBy,
                   cCaller, cExc, cEmails, cResult, cMarkSteps, cReaderMarks,
                   cycles, mailbox>>

\* _fetch_emails: entering the with statement
FetchConnect ==
    /\ cPc = "fetch_connect"
    /\ ReaderEnter("fetch")
    /\ UNCHANGED outsideScheduler
    /\ UNCHANGED <<cfgVars, daemonVars, cCaller, cExc, cEmails, cResult,
                   cMarkSteps, cReaderMarks, cycles, mailbox>>

\* the sequence numbers the UNSEEN search returns, as bytes
SearchUnseen(mb) ==
    LET ids == SelectSeq([i \in 1 .. Len(mb) |-> i], LAMBDA i : ~mb[i])
    IN  [k \in 1 .. Len(ids) |-> <<"bytes", ids[k]>>]

\* the Email objects built from the ids whose fetch and parse succeeded
FetchedEmails(ids, bad) ==
    LET good == SelectSeq(ids, LAMBDA b : b[2] \notin bad)
    IN  [k \in 1 .. Len(good) |-> [uid |-> Decode(good[k])]]

\* "(RFC822)" is fetched from a folder selected read-write, so the server
\* sets \Seen on every unread message it returns
SeenByFetch(mb, bad) == [i \in 1 .. Len(mb) |-> mb[i] \/ i \notin bad]

\* FetchBodyNext with a fault: the reader is not closed after a good fetch
FetchBodyNextNoExit(exc) == IF exc = NoExc THEN "process" ELSE "fetch_exit"

\* leaving the body of the with statement of _fetch_emails runs __exit__
FetchBodyNext(exc) == "fetch_exit"

\* reader.fetch_emails(unread_only=True)
FetchEmails ==
    /\ cPc = "fetch"
    /\ log' = Append(log, <<"fetch", reader_connection, TRUE>>)
    /\ \E o \in {"raise", "not_ok", "ok"} :
         /\ cExc' = IF reader_connection = 0 THEN "RuntimeError"
                    ELSE IF o = "raise" THEN "IMAP4.error" ELSE NoExc
         /\ IF reader_connection # 0 /\ o = "ok"
              THEN \E bad \in SUBSET (1 .. Len(mailbox)) :
                     /\ cEmails' = FetchedEmails(SearchUnseen(mailbox), bad)
                     /\ mailbox' = SeenByFetch(mailbox, bad)
              ELSE cEmails' = <<>> /\ UNCHANGED mailbox
         /\ cPc' = FetchBodyNext(cExc')
    /\ UNCHANGED outsideScheduler
    /\ UNCHANGED <<cfgVars, daemonVars, dPc, cCaller, cResult, cOutcome,
                   cMarkSteps, cReaderMarks, cSessions, active, cycles,
                   loggedErrors, reader_connection, rOpen, rNext>>

\* EmailReader.disconnect(), called by __exit__
ReaderDisconnect ==
    IF reader_connection # 0
      THEN \E logout \in {"ok", "IMAP4.error"} :
             /\ rOpen' = rOpen \ {reader_connection}
             /\ log' = Append(log, <<"close", reader_connection>>)
             /\ reader_connection' = 0
      ELSE UNCHANGED <<reader_connection, rOpen, log>>

\* _fetch_emails: __exit__, then return the list or re-raise
FetchExit ==
    /\ cPc = "fetch_exit"
    /\ ReaderDisconnect
    /\ IF cExc # NoExc
         THEN EndCycle(cExc)
         ELSE /\ cPc' = "process"
              /\ UNCHANGED <<active, cOutcome, dPc, loggedErrors>>
    /\ UNCHANGED outsideScheduler
    /\ UNCHANGED <<cfgVars, daemonVars, cCaller, cExc, cEmails, cResult,
                   cMarkSteps, cReaderMarks, cSessions, cycles, rNext,
                   mailbox>>

ProcessingResult(p, s, e) ==
    [emails_processed |-> p, emails_sent |-> s, errors |-> e]

\* PlaceholderPipeline.process with a fault: every message counts as sent
PlaceholderProcessAsSent(emails) ==
    ProcessingResult(Len(emails), Len(emails), <<>>)

\* PlaceholderPipeline.process
PlaceholderProcess(emails) == ProcessingResult(Len(emails), 0, <<>>)

\* what the body of the try statement can raise for one message
BodyOutcomes == {NoExc, "ValueError", "TimeoutError"}

\* PipelineCatches with a fault: only ValueError is caught
PipelineCatchesValueOnly(e) == IsInstance(e, "ValueError")

\* EmailProcessingPipeline.process: "except Exception as e"
PipelineCatches(e) == IsInstance(e, "Exception")

\* f"Failed to process {email.uid}: {e}"
ErrorMsg(uid, e) == <<"Failed to process", uid, e>>

\* RecordError with a fault: only the last error is kept
RecordErrorKeepsLast(errors, error_msg) == <<error_msg>>

\* errors.append(error_msg)
RecordError(errors, error_msg) == Append(errors, error_msg)

\* HandleEmail with a fault: a message counts twice when it is sent
HandleEmailCountsTwice(acc, email, exc) ==
    IF exc = NoExc
      THEN [acc EXCEPT !.sent = @ + 2]
      ELSE [acc EXCEPT !.errors = RecordError(@, ErrorMsg(email.uid, exc))]

\* one iteration of the for loop on the locals emails_sent and errors:
\* the body counts the message as sent, the except clause records an error
HandleEmail(acc, email, exc) ==
    IF exc = NoExc
      THEN [acc EXCEPT !.sent = @ + 1]
      ELSE [acc EXCEPT !.errors = RecordError(@, ErrorMsg(email.uid, exc))]

RECURSIVE FoldEmails(_, _, _)
FoldEmails(acc, emails, fails) ==
    IF emails = <<>> THEN acc
    ELSE FoldEmails(HandleEmail(acc, Head(emails), Head(fails)),
                    Tail(emails), Tail(fails))

\* EmailProcessingPipeline.process, once the client exists; fails gives
\* what the body raises for each message
EmailProcessingProcess(emails, fails) ==
    IF emails = <<>> THEN ProcessingResult(0, 0, <<>>)
    ELSE LET acc == FoldEmails([sent |-> 0, errors |-> <<>>], emails, fails)
         IN  ProcessingResult(Len(emails), acc.sent, acc.errors)

\* MarkingApplies with a fault: the mark_as_read setting is ignored
MarkingAppliesAlways(result) == result.emails_processed > 0

\* "if result.emails_processed > 0 and self.config.source_email.mark_as_read"
MarkingApplies(result) == result.emails_processed > 0 /\ cfg_mark_as_read

Uids(emails) == [k \in 1 .. Len(emails) |-> emails[k].uid]

\* run_once(): pipeline.process(emails) and the decision to mark
Process ==
    /\ cPc = "process"
    /\ log' = Append(log, <<"process">>)
    /\ \E clientOk \in BOOLEAN,
          fails \in [1 .. Len(cEmails) -> BodyOutcomes] :
         LET raises == /\ pipelineKind = "EmailProcessingPipeline"
                       /\ cEmails # <<>>
                       /\ ~clientOk
             result == IF pipelineKind = "PlaceholderPipeline"
                         THEN PlaceholderProcess(cEmails)
                         ELSE EmailProcessingProcess(cEmails, fails)
         IN
         IF raises
           THEN /\ EndCycle("ValueError")
                /\ UNCHANGED <<cResult, cMarkSteps>>
           ELSE /\ cResult' = result
                /\ IF MarkingApplies(result)
                     THEN /\ cMarkSteps' = Append(cMarkSteps, Uids(cEmails))
                          /\ cPc' = "mark_connect"
                          /\ UNCHANGED <<active, cOutcome, dPc, loggedErrors>>
                     ELSE /\ EndCycle(NoExc)
                          /\ UNCHANGED cMarkSteps
    /\ UNCHANGED outsideScheduler
    /\ UNCHANGED <<cfgVars, daemonVars, cCaller, cExc, cEmails, cReaderMarks,
                   cSessions, cycles, readerVars>>

\* _mark_emails_processed: entering the with statement
MarkConnect ==
    /\ cPc = "mark_connect"
    /\ ReaderEnter("mark")
    /\ UNCHANGED outsideScheduler
    /\ UNCHANGED <<cfgVars, daemonVars, cCaller, cExc, cEmails, cResult,
                   cMarkSteps, cReaderMarks, cycles, mailbox>>

\* the mailbox after "+FLAGS \Seen" was stored for the first n of uids
StoreSeen(mb, uids, n) ==
    [i \in 1 .. Len(mb) |->
       IF \E k \in 1 .. n : Encode(uids[k])[2] = i THEN TRUE ELSE mb[i]]

\* reader.mark_as_read(uids): a store that raises ends the loop
MarkAsRead ==
    /\ cPc = "mark"
    /\ LET uids == cMarkSteps[Len(cMarkSteps)] IN
       /\ cReaderMarks' = Append(cReaderMarks, uids)
       /\ log' = Append(log, <<"mark", reader_connection>>)
       /\ IF reader_connection = 0
            THEN cExc' = "RuntimeError" /\ UNCHANGED mailbox
            ELSE \E n \in 0 .. Len(uids) :
                   /\ mailbox' = StoreSeen(mailbox, uids, n)
                   /\ cExc' = IF n < Len(uids) THEN "IMAP4.error" ELSE NoExc
    /\ cPc' = "mark_exit"
    /\ UNCHANGED outsideScheduler
    /\ UNCHANGED <<cfgVars, daemonVars, dPc, cCaller, cEmails, cResult,
                   cOutcome, cMarkSteps, cSessions, active, cycles,
                   loggedErrors, reader_connection, rOpen, rNext>>

\* _mark_emails_processed: __exit__, then run_once() returns the result
MarkExit ==
    /\ cPc = "mark_exit"
    /\ ReaderDisconnect
    /\ EndCycle(cExc)
    /\ UNCHANGED outsideScheduler
    /\ UNCHANGED <<cfgVars, daemonVars, cCaller, cExc, cEmails, cResult,
                   cMarkSteps, cReaderMarks, cSessions, cycles, rNext,
                   mailbox>>

(***************************************************************************)
(* The daemon: start(), the polling loop, the trigger and shutdown         *)
(***************************************************************************)
\* Start with a fault: schedule.enabled is not looked at
StartIgnoringEnabled ==
    /\ mode = "daemon"
    /\ dPc = "init"
    /\ handlers' = TRUE
    /\ jobs' = jobs + 1
    /\ dPc' = "setup"
    /\ UNCHANGED outsideScheduler
    /\ UNCHANGED lateCycles
    /\ UNCHANGED <<cfgVars, running, due, fires, jobsLeft, shutdownBy,
                   cycleVars, readerVars>>

\* start() up to the registration of the daily job
Start ==
    /\ mode = "daemon"
    /\ dPc = "init"
    /\ IF ~cfg_enabled
         THEN /\ dPc' = "returned"
              /\ UNCHANGED <<handlers, jobs>>
         ELSE /\ handlers' = TRUE
              /\ jobs' = jobs + 1
              /\ dPc' = "setup"
    /\ UNCHANGED outsideScheduler
    /\ UNCHANGED lateCycles
    /\ UNCHANGED <<cfgVars, running, due, fires, jobsLeft, shutdownBy,
                   cycleVars, readerVars>>

\* start(): self._running = True
StartRunning ==
    /\ dPc = "setup"
    /\ running' = TRUE
    /\ dPc' = "while"
    /\ UNCHANGED outsideScheduler
    /\ UNCHANGED lateCycles
    /\ UNCHANGED <<cfgVars, handlers, jobs, due, fires, jobsLeft, shutdownBy,
                   cycleVars, readerVars>>

\* LoopCheck with a fault: a job that ran stays due
LoopCheckKeepsDue ==
    /\ dPc = "while"
    /\ IF running
         THEN /\ dPc' = "run_pending"
              /\ jobsLeft' = IF due THEN jobs ELSE 0
         ELSE /\ dPc' = "returned"
              /\ UNCHANGED jobsLeft
    /\ UNCHANGED outsideScheduler
    /\ UNCHANGED lateCycles
    /\ UNCHANGED <<cfgVars, running, handlers, jobs, due, fires, shutdownBy,
                   cycleVars, readerVars>>

\* "while self._running": enter schedule.run_pending() or leave the loop
LoopCheck ==
    /\ dPc = "while"
    /\ IF running
         THEN /\ dPc' = "run_pending"
              /\ jobsLeft' = IF due THEN jobs ELSE 0
              /\ due' = FALSE
         ELSE /\ dPc' = "returned"
              /\ UNCHANGED <<jobsLeft, due>>
    /\ UNCHANGED outsideScheduler
    /\ UNCHANGED lateCycles
    /\ UNCHANGED <<cfgVars, running, handlers, jobs, fires, shutdownBy,
                   cycleVars, readerVars>>

\* RunJob with a fault: the job is started and not waited for
RunJobDetached ==
    /\ dPc = "run_pending"
    /\ jobsLeft > 0
    /\ BeginCycle("job")
    /\ jobsLeft' = jobsLeft - 1
    /\ dPc' = "run_pending"
    /\ lateCycles' = IF running THEN lateCycles ELSE lateCycles + 1
    /\ UNCHANGED outsideScheduler
    /\ UNCHANGED <<cfgVars, running, handlers, jobs, due, fires, shutdownBy,
                   loggedErrors, readerVars>>

\* run_pending() calls _job, which calls run_once() and waits for it
RunJob ==
    /\ dPc = "run_pending"
    /\ jobsLeft > 0
    /\ BeginCycle("job")
    /\ jobsLeft' = jobsLeft - 1
    /\ dPc' = "in_job"
    /\ lateCycles' = IF running THEN lateCycles ELSE lateCycles + 1
    /\ UNCHANGED outsideScheduler
    /\ UNCHANGED <<cfgVars, running, handlers, jobs, due, fires, shutdownBy,
                   loggedErrors, readerVars>>

\* Sleep with a fault: after the sleep the next run_pending() is entered
\* without evaluating the loop condition
SleepWithoutCheck ==
    /\ dPc = "run_pending"
    /\ jobsLeft = 0
    /\ due
    /\ jobsLeft' = jobs
    /\ due' = FALSE
    /\ UNCHANGED outsideScheduler
    /\ UNCHANGED <<cfgVars, running, handlers, jobs, fires, shutdownBy,
                   lateCycles, dPc, cycleVars, readerVars>>

\* run_pending() is done; time.sleep(30)
Sleep ==
    /\ dPc = "run_pending"
    /\ jobsLeft = 0
    /\ dPc' = "while"
    /\ UNCHANGED outsideScheduler
    /\ UNCHANGED <<cfgVars, daemonVars, cycleVars, readerVars>>

\* the wall clock reaches the time of the registered daily job
TriggerFires ==
    /\ mode = "daemon"
    /\ jobs > 0
    /\ dPc \notin {"returned", "crashed"}
    /\ ~due
    /\ fires < MaxCycles
    /\ due' = TRUE
    /\ fires' = fires + 1
    /\ UNCHANGED outsideScheduler
    /\ UNCHANGED lateCycles
    /\ UNCHANGED <<cfgVars, running, handlers, jobs, jobsLeft, shutdownBy,
                   dPc, cycleVars, readerVars>>

\* Signal with a fault: the signal also abandons the cycle in flight
SignalInterrupting ==
    /\ handlers
    /\ dPc \notin {"returned", "crashed"}
    /\ shutdownBy = "none"
    /\ running' = FALSE
    /\ shutdownBy' = "signal"
    /\ cPc' = "idle"
    /\ active' = 0
    /\ dPc' = IF dPc = "in_job" THEN "while" ELSE dPc
    /\ UNCHANGED outsideScheduler
    /\ UNCHANGED lateCycles
    /\ UNCHANGED <<cfgVars, handlers, jobs, due, fires, jobsLeft, cCaller,
                   cExc, cEmails, cResult, cOutcome, log, cMarkSteps,
                   cReaderMarks, cSessions, cycles, loggedErrors, readerVars>>

\* SIGINT or SIGTERM is delivered: _handle_shutdown
Signal ==
    /\ handlers
    /\ dPc \notin {"returned", "crashed"}
    /\ shutdownBy = "none"
    /\ running' = FALSE
    /\ shutdownBy' = "signal"
    /\ UNCHANGED outsideScheduler
    /\ UNCHANGED lateCycles
    /\ UNCHANGED <<cfgVars, handlers, jobs, due, fires, jobsLeft, dPc,
                   cycleVars, readerVars>>

\* Stop with a fault: the flag is left as it is
StopWithoutEffect ==
    /\ mode = "daemon"
    /\ dPc \notin {"init", "returned", "crashed"}
    /\ shutdownBy = "none"
    /\ shutdownBy' = "stop"
    /\ UNCHANGED outsideScheduler
    /\ UNCHANGED lateCycles
    /\ UNCHANGED <<cfgVars, running, handlers, jobs, due, fires, jobsLeft,
                   dPc, cycleVars, readerVars>>

\* stop()
Stop ==
    /\ mode = "daemon"
    /\ dPc \notin {"init", "returned", "crashed"}
    /\ shutdownBy = "none"
    /\ running' = FALSE
    /\ shutdownBy' = "stop"
    /\ UNCHANGED outsideScheduler
    /\ UNCHANGED lateCycles
    /\ UNCHANGED <<cfgVars, handlers, jobs, due, fires, jobsLeft, dPc,
                   cycleVars, readerVars>>

\* start() calls in one process
MaxStarts == 2

\* start() is called again after it has returned on a shutdown request: the
\* handlers are installed again and one more job is registered in the
\* schedule module, which still holds the jobs of the earlier calls
StartAgain ==
    /\ mode = "daemon"
    /\ cfg_enabled
    /\ dPc = "returned"
    /\ jobs < MaxStarts
    /\ handlers' = TRUE
    /\ jobs' = jobs + 1
    /\ shutdownBy' = "none"
    /\ dPc' = "setup"
    /\ lateCycles' = 0
    /\ UNCHANGED outsideScheduler
    /\ UNCHANGED <<cfgVars, running, due, fires, jobsLeft, cycleVars,
                   readerVars>>

\* main(): the exit status of the process in run-once mode; a non-empty
\* result.errors is only logged
MainExitStatus(outcome, result) ==
    IF outcome.status = "raised" THEN 1 ELSE 0

(***************************************************************************)
(* The pipelines, one process() call step by step                          *)
(***************************************************************************)
\* messages in one batch handed to process()
MaxBatch == 3

Batches ==
    UNION {[1 .. n -> [uid : {<<"str", i>> : i \in 1 .. MaxBatch}]] :
             n \in 0 .. MaxBatch}

PipelineInit ==
    /\ pKind \in {"PlaceholderPipeline", "EmailProcessingPipeline"}
    /\ pEmails \in Batches
    /\ pPc = "idle"
    /\ pIdx = 0
    /\ pSent = 0
    /\ pErrors = <<>>
    /\ pHandled = <<>>
    /\ pOutcomes = <<>>
    /\ pClient = FALSE
    /\ pCompletions = 0
    /\ pSends = <<>>
    /\ pResult = NoResult
    /\ pRaised = NoExc

\* PlaceholderPipeline.process(emails)
PlaceholderCall ==
    /\ pPc = "idle"
    /\ pKind = "PlaceholderPipeline"
    /\ pResult' = PlaceholderProcess(pEmails)
    /\ pPc' = "done"
    /\ UNCHANGED outsidePipeline
    /\ UNCHANGED <<pKind, pEmails, pIdx, pSent, pErrors, pHandled, pOutcomes,
                   pClient, pCompletions, pSends, pRaised>>

\* ClientNeeded with a fault: the client is created before the empty check
ClientNeededAlways(emails) == TRUE

\* "if not emails: return" comes before create_llm_client
ClientNeeded(emails) == emails # <<>>

\* EmailProcessingPipeline.process(emails) up to the for loop
ProcessCall ==
    /\ pPc = "idle"
    /\ pKind = "EmailProcessingPipeline"
    /\ pClient' = ClientNeeded(pEmails)
    /\ \E clientOk \in BOOLEAN :
         IF ClientNeeded(pEmails) /\ ~clientOk
           THEN /\ pRaised' = "ValueError"
                /\ pPc' = "done"
                /\ UNCHANGED pResult
           ELSE IF pEmails = <<>>
           THEN /\ pResult' = ProcessingResult(0, 0, <<>>)
                /\ pPc' = "done"
                /\ UNCHANGED pRaised
           ELSE /\ pPc' = "loop"
                /\ UNCHANGED <<pResult, pRaised>>
    /\ UNCHANGED outsidePipeline
    /\ UNCHANGED <<pKind, pEmails, pIdx, pSent, pErrors, pHandled, pOutcomes,
                   pCompletions, pSends>>

\* EmailProcessingPipeline.process: one iteration of the for loop, and the
\* return after the last one
ProcessStep ==
    /\ pPc = "loop"
    /\ pIdx < Len(pEmails)
    /\ \E exc \in BodyOutcomes :
         LET email == pEmails[pIdx + 1]
             acc   == HandleEmail([sent |-> pSent, errors |-> pErrors],
                                  email, exc)
         IN
         /\ pHandled' = Append(pHandled, email.uid)
         /\ pOutcomes' = Append(pOutcomes, exc)
         /\ IF exc # NoExc /\ ~PipelineCatches(exc)
              THEN /\ pRaised' = exc
                   /\ pPc' = "done"
                   /\ UNCHANGED <<pIdx, pSent, pErrors, pResult>>
              ELSE /\ pSent' = acc.sent
                   /\ pErrors' = acc.errors
                   /\ pIdx' = pIdx + 1
                   /\ UNCHANGED pRaised
                   /\ IF pIdx + 1 = Len(pEmails)
                        THEN /\ pPc' = "done"
                             /\ pResult' = ProcessingResult(Len(pEmails),
                                                            acc.sent,
                                                            acc.errors)
                        ELSE /\ pPc' = "loop"
                             /\ UNCHANGED pResult
    /\ UNCHANGED outsidePipeline
    /\ UNCHANGED <<pKind, pEmails, pClient, pCompletions, pSends>>

(***************************************************************************)
(* The daily job and the clocks                                            *)
(***************************************************************************)
\* ticks in a day
DayLen == 3
\* last instant explored
MaxTime == 6

ClockInit ==
    /\ utc \in 0 .. (DayLen - 1)
    /\ localOff \in 0 .. (DayLen - 1)
    /\ tzOff \in 0 .. (DayLen - 1)
    /\ at_time \in 0 .. (DayLen - 1)
    /\ next_run = 0 - 1
    /\ lastDue = 0 - 1

\* datetime.now(): the naive local time the schedule module works with
LocalNow == utc + localOff

\* the first local time after now whose time of day is t
NextAt(now, t) == CHOOSE x \in (now + 1) .. (now + DayLen) : x % DayLen = t

\* start(): schedule.every().day.at(schedule_time).do(self._job)
ClockRegister ==
    /\ next_run < 0
    /\ next_run' = NextAt(LocalNow, at_time)
    /\ UNCHANGED outsideClock
    /\ UNCHANGED <<utc, localOff, tzOff, at_time, lastDue>>

\* time passes
ClockTick ==
    /\ utc < MaxTime
    /\ utc' = utc + 1
    /\ UNCHANGED outsideClock
    /\ UNCHANGED <<localOff, tzOff, at_time, next_run, lastDue>>

\* schedule.run_pending() with the job due: it runs and is rescheduled
ClockRunPending ==
    /\ next_run >= 0
    /\ LocalNow >= next_run
    /\ lastDue' = next_run - localOff
    /\ next_run' = NextAt(LocalNow, at_time)
    /\ UNCHANGED outsideClock
    /\ UNCHANGED <<utc, localOff, tzOff, at_time>>

(***************************************************************************)
(* The reader: one EmailReader and the calls made on it                    *)
(***************************************************************************)
\* messages in the folder the reader works on
MaxInbox == 2
\* calls made on the reader in one run
MaxReaderCalls == 3
\* largest configured fetch_days
MaxFetchDays == 1
\* the day of datetime.now(timezone.utc); no window reaches back to day 0
Today == MaxFetchDays + 1

\* source_email.fetch_days is an unconstrained int
FetchDays == (0 - 1) .. MaxFetchDays

\* a message in the folder: its \Seen flag and the day it arrived; only
\* the oldest message may predate every window
Inboxes ==
    {box \in UNION {[1 .. n -> [seen : BOOLEAN, day : {0, Today}]] :
                      n \in 0 .. MaxInbox} :
       \A i \in 2 .. Len(box) : box[i].day = Today}

\* a search key of the criteria string: a word and its argument
NoArg == 0 - 1
Key(word) == <<word, NoArg>>

\* since_date.strftime("%d-%b-%Y"): the date is kept to the day
SinceDate(now, days) == now - days

\* BuildSearchCriteria with a fault: the date filter comes first
BuildSearchCriteriaSinceFirst(unread_only, days, now) ==
    LET criteria_parts ==
          (IF days > 0 THEN <<<<"SINCE", SinceDate(now, days)>>>>
                       ELSE <<>>)
          \o (IF unread_only THEN <<Key("UNSEEN")>> ELSE <<>>)
    IN  IF criteria_parts = <<>>
          THEN <<Key("ALL")>>
          ELSE <<Key("(")>> \o criteria_parts \o <<Key(")")>>

\* _build_search_criteria: the criteria string as its words in order; the
\* parentheses are words of their own
BuildSearchCriteria(unread_only, days, now) ==
    LET criteria_parts ==
          (IF unread_only THEN <<Key("UNSEEN")>> ELSE <<>>)
          \o (IF days > 0 THEN <<<<"SINCE", SinceDate(now, days)>>>>
                          ELSE <<>>)
    IN  IF criteria_parts = <<>>
          THEN <<Key("ALL")>>
          ELSE <<Key("(")>> \o criteria_parts \o <<Key(")")>>

\* the server's answer to SEARCH: the sequence numbers, as bytes, of the
\* messages that match every key of the criteria
Matches(m, key) ==
    CASE key[1] = "UNSEEN" -> ~m.seen
      [] key[1] = "SINCE"  -> m.day >= key[2]
      [] OTHER             -> TRUE

SearchResult(box, criteria) ==
    LET hit(i) == \A k \in 1 .. Len(criteria) : Matches(box[i], criteria[k])
        ids == SelectSeq([i \in 1 .. Len(box) |-> i], hit)
    IN  [k \in 1 .. Len(ids) |-> <<"bytes", ids[k]>>]

\* what a fetched message looks like to the parser
GoodForm == [subject |-> "text", date |-> "valid", body |-> "utf-8"]

Forms ==
    {GoodForm,
     [GoodForm EXCEPT !.subject = "unknown charset"],
     [GoodForm EXCEPT !.date = "unparsable"],
     [GoodForm EXCEPT !.body = "unknown charset"]}

\* what connection.fetch(uid, "(RFC822)") does for one id: it raises, it
\* answers with a status other than OK, or it returns a message
FetchOutcomes ==
    {[status |-> st, form |-> GoodForm] : st \in {"raise", "NO"}}
    \cup {[status |-> "OK", form |-> f] : f \in Forms}

GoodFetch == [status |-> "OK", form |-> GoodForm]

\* _decode_header: bytes.decode(charset, errors="replace") raises
\* LookupError for a charset Python does not know
DecodeHeader(h) ==
    CASE h = "absent"          -> [exc |-> NoExc, val |-> ""]
      [] h = "unknown charset" -> [exc |-> "LookupError", val |-> ""]
      [] OTHER                 -> [exc |-> NoExc, val |-> h]

\* _parse_date: a missing or unparsable Date gives the current time
ParseDate(d) == IF d = "valid" THEN "parsed" ELSE "now"

\* _decode_payload: LookupError is caught and the bytes are decoded as
\* UTF-8 with replacement
DecodePayload(b) ==
    CASE b = "absent"          -> ""
      [] b = "unknown charset" -> "replaced"
      [] OTHER                 -> "text"

\* FetchCatches with a fault: only protocol errors are caught
FetchCatchesProtocolOnly(e) == IsInstance(e, "IMAP4.error")

\* _fetch_single_email: "except Exception as e"
FetchCatches(e) == IsInstance(e, "Exception")

\* _fetch_single_email(uid): [exc, emails] where emails is <<>> for None
FetchSingleEmail(uid, o) ==
    LET subject == DecodeHeader(o.form.subject)
        exc == IF o.status = "raise" THEN "IMAP4.error"
               ELSE IF o.status = "OK" THEN subject.exc
               ELSE NoExc
    IN  IF exc # NoExc
          THEN [exc |-> IF FetchCatches(exc) THEN NoExc ELSE exc,
                emails |-> <<>>]
        ELSE IF o.status # "OK"
          THEN [exc |-> NoExc, emails |-> <<>>]
        ELSE [exc |-> NoExc,
              emails |-> <<[uid |-> Decode(uid),
                            subject |-> subject.val,
                            date |-> ParseDate(o.form.date),
                            body_text |-> DecodePayload(o.form.body)]>>]

\* the for loop of fetch_emails over the first n ids
RECURSIVE FetchLoop(_, _, _)
FetchLoop(ids, outs, n) ==
    IF n = 0 THEN [exc |-> NoExc, emails |-> <<>>]
    ELSE LET before == FetchLoop(ids, outs, n - 1)
             one == FetchSingleEmail(ids[n], outs[n])
         IN  IF before.exc # NoExc THEN before
             ELSE [exc |-> one.exc, emails |-> before.emails \o one.emails]

\* the number of ids for which a FETCH command went out
FetchesIssued(ids, outs) ==
    LET stops == {n \in 1 .. Len(ids) : FetchLoop(ids, outs, n).exc # NoExc}
    IN  IF stops = {} THEN Len(ids)
        ELSE CHOOSE n \in stops : \A m \in stops : n <= m

\* RFC822 is fetched from a folder selected read-write, so the server sets
\* \Seen on every message it returns
SeenAfterFetch(box, ids, outs, n) ==
    [i \in 1 .. Len(box) |->
       IF \E k \in 1 .. n : ids[k][2] = i /\ outs[k].status = "OK"
         THEN [box[i] EXCEPT !.seen = TRUE]
         ELSE box[i]]

NoCall == [op |-> "none", unread_only |-> FALSE, uids |-> <<>>, conn |-> 0]
CallOf(op, unread_only, uids) ==
    [op |-> op, unread_only |-> unread_only, uids |-> uids, conn |-> rdConn]

RdReturned(v) == [status |-> "returned", exc |-> NoExc, value |-> v]
RdRaised(e) == [status |-> "raised", exc |-> e, value |-> <<>>]

\* EmailReader.__init__, the configuration and the folder it will meet
ReaderInit ==
    /\ fetch_days \in FetchDays
    /\ inbox \in Inboxes
    /\ rdConn = 0
    /\ rdAuth = FALSE
    /\ rdHeld = FALSE
    /\ rdCall = NoCall
    /\ rdRes = RdReturned(<<>>)
    /\ rdOps = <<>>
    /\ rdIds = <<>>
    /\ rdOuts = <<>>
    /\ rdCalls = 0

\* argument lists of mark_as_read and add_label: ids of the folder, in
\* the order of a search result
UidLists ==
    {LET ids == SelectSeq([i \in 1 .. Len(inbox) |-> i],
                          LAMBDA i : i \in chosen)
     IN  [k \in 1 .. Len(ids) |-> <<"str", ids[k]>>] :
       chosen \in SUBSET (1 .. Len(inbox))}

\* what the server does for the n requests of one call: at most one of
\* them gets an answer other than ok
OneOff(n, ok, others) ==
    {[k \in 1 .. n |-> ok]}
    \cup {[k \in 1 .. n |-> IF k = at THEN o ELSE ok] :
            at \in 1 .. n, o \in others}

\* connect(): the connection object is assigned before login() is called
RdConnect ==
    /\ rdCalls < MaxReaderCalls
    /\ rdCalls' = rdCalls + 1
    /\ rdCall' = CallOf("connect", FALSE, <<>>)
    /\ \E o \in ReaderConnectOutcomes :
         IF o = "IMAP4_SSL"
           THEN /\ rdRes' = RdRaised("OSError")
                /\ rdOps' = <<>>
                /\ UNCHANGED <<rdConn, rdAuth, rdHeld>>
           ELSE /\ rdConn' = 1
                /\ rdAuth' = (o = "ok")
                /\ rdHeld' = (o = "ok")
                /\ rdOps' = <<Key("LOGIN")>>
                /\ rdRes' = IF o = "ok" THEN RdReturned(<<>>)
                            ELSE RdRaised("IMAP4.error")
    /\ rdIds' = <<>>
    /\ rdOuts' = <<>>
    /\ UNCHANGED outsideReader
    /\ UNCHANGED <<fetch_days, inbox>>

LogoutOutcomes == {NoExc, "IMAP4.error", "OSError"}

\* disconnect(): "except imaplib.IMAP4.error as e"
LogoutCatches(e) == IsInstance(e, "IMAP4.error")

\* RdDisconnect with a fault: the connection is kept when logout() fails
RdDisconnectKeepsOnError ==
    /\ rdCalls < MaxReaderCalls
    /\ rdCalls' = rdCalls + 1
    /\ rdCall' = CallOf("disconnect", FALSE, <<>>)
    /\ IF rdConn # 0
         THEN \E lo \in LogoutOutcomes :
                /\ rdOps' = <<Key("LOGOUT")>>
                /\ rdOuts' = <<lo>>
                /\ rdRes' = IF lo = NoExc \/ LogoutCatches(lo)
                              THEN RdReturned(<<>>) ELSE RdRaised(lo)
                /\ IF lo = NoExc
                     THEN rdConn' = 0 /\ rdAuth' = FALSE /\ rdHeld' = FALSE
                     ELSE UNCHANGED <<rdConn, rdAuth, rdHeld>>
         ELSE /\ rdOps' = <<>>
              /\ rdOuts' = <<>>
              /\ rdRes' = RdReturned(<<>>)
              /\ UNCHANGED <<rdConn, rdAuth, rdHeld>>
    /\ rdIds' = <<>>
    /\ UNCHANGED outsideReader
    /\ UNCHANGED <<fetch_days, inbox>>

\* disconnect(): logout() under try/except/finally when a connection is held
RdDisconnect ==
    /\ rdCalls < MaxReaderCalls
    /\ rdCalls' = rdCalls + 1
    /\ rdCall' = CallOf("disconnect", FALSE, <<>>)
    /\ IF rdConn # 0
         THEN \E lo \in LogoutOutcomes :
                /\ rdOps' = <<Key("LOGOUT")>>
                /\ rdOuts' = <<lo>>
                /\ rdRes' = IF lo = NoExc \/ LogoutCatches(lo)
                              THEN RdReturned(<<>>) ELSE RdRaised(lo)
                /\ rdConn' = 0
                /\ rdAuth' = FALSE
                /\ rdHeld' = FALSE
         ELSE /\ rdOps' = <<>>
              /\ rdOuts' = <<>>
              /\ rdRes' = RdReturned(<<>>)
              /\ UNCHANGED <<rdConn, rdAuth, rdHeld>>
    /\ rdIds' = <<>>
    /\ UNCHANGED outsideReader
    /\ UNCHANGED <<fetch_days, inbox>>

\* the start of fetch_emails, mark_as_read and add_label: the connection
\* check, then select(folder), which imaplib refuses before login
Entry ==
    IF rdConn = 0 THEN "RuntimeError"
    ELSE IF ~rdAuth THEN "IMAP4.error"
    ELSE NoExc

\* fetch_emails(folder, unread_only)
RdFetchEmails ==
    /\ rdCalls < MaxReaderCalls
    /\ rdCalls' = rdCalls + 1
    /\ \E unread_only \in BOOLEAN :
         LET criteria == BuildSearchCriteria(unread_only, fetch_days, Today)
             ids == SearchResult(inbox, criteria)
         IN
         /\ rdCall' = CallOf("fetch_emails", unread_only, <<>>)
         /\ IF Entry # NoExc
              THEN /\ rdRes' = RdRaised(Entry)
                   /\ rdOps' = <<>>
                   /\ rdIds' = <<>>
                   /\ rdOuts' = <<>>
                   /\ UNCHANGED inbox
              ELSE \E search \in {"raise", "NO", "OK"} :
                     IF search # "OK"
                       THEN /\ rdRes' = IF search = "raise"
                                          THEN RdRaised("IMAP4.error")
                                          ELSE RdReturned(<<>>)
                            /\ rdOps' = <<Key("SELECT"),
                                          <<"SEARCH", criteria, search>>>>
                            /\ rdIds' = <<>>
                            /\ rdOuts' = <<>>
                            /\ UNCHANGED inbox
                       ELSE \E outs \in OneOff(Len(ids), GoodFetch,
                                                FetchOutcomes) :
                              LET n == FetchesIssued(ids, outs)
                                  r == FetchLoop(ids, outs, n)
                              IN
                              /\ rdIds' = ids
                              /\ rdOuts' = SubSeq(outs, 1, n)
                              /\ rdOps' = <<Key("SELECT"),
                                            <<"SEARCH", criteria, search>>>>
                                          \o [k \in 1 .. n |->
                                                <<"FETCH", ids[k]>>]
                              /\ rdRes' = IF r.exc = NoExc
                                            THEN RdReturned(r.emails)
                                            ELSE RdRaised(r.exc)
                              /\ inbox' = SeenAfterFetch(inbox, ids, outs, n)
    /\ UNCHANGED outsideReader
    /\ UNCHANGED <<fetch_days, rdConn, rdAuth, rdHeld>>

StoreOutcomes == {NoExc, "IMAP4.error"}

\* the \Seen flags after the stores that went through
SeenAfterStore(box, uids, outs) ==
    [i \in 1 .. Len(box) |->
       IF \E k \in 1 .. Len(outs) :
            Encode(uids[k])[2] = i /\ outs[k] = NoExc
         THEN [box[i] EXCEPT !.seen = TRUE]
         ELSE box[i]]

\* mark_as_read(uids): the loop has no except clause, so the first store
\* that raises ends it
RdMarkAsRead ==
    /\ rdCalls < MaxReaderCalls
    /\ rdCalls' = rdCalls + 1
    /\ \E uids \in UidLists :
         /\ rdCall' = CallOf("mark_as_read", FALSE, uids)
         /\ IF Entry # NoExc
              THEN /\ rdRes' = RdRaised(Entry)
                   /\ rdOps' = <<>>
                   /\ rdOuts' = <<>>
                   /\ UNCHANGED inbox
              ELSE \E n \in 0 .. Len(uids), last \in StoreOutcomes :
                     /\ (n = 0 => last = NoExc)
                     /\ (n < Len(uids) => last # NoExc)
                     /\ LET outs == [k \in 1 .. n |->
                                       IF k < n THEN NoExc ELSE last]
                        IN
                        /\ rdOuts' = outs
                        /\ rdOps' = <<Key("SELECT")>>
                                    \o [k \in 1 .. n |->
                                          <<"STORE", Encode(uids[k]),
                                            "+FLAGS", "\\Seen">>]
                        /\ rdRes' = IF n = 0 \/ last = NoExc
                                      THEN RdReturned(<<>>)
                                      ELSE RdRaised(last)
                        /\ inbox' = SeenAfterStore(inbox, uids, outs)
    /\ rdIds' = <<>>
    /\ UNCHANGED outsideReader
    /\ UNCHANGED <<fetch_days, rdConn, rdAuth, rdHeld>>

\* add_label: "except imaplib.IMAP4.error as e" inside the loop
LabelCatches(e) == IsInstance(e, "IMAP4.error")

\* add_label(uids, label): every id gets its store, a failing one is logged
RdAddLabel ==
    /\ rdCalls < MaxReaderCalls
    /\ rdCalls' = rdCalls + 1
    /\ \E uids \in UidLists :
         /\ rdCall' = CallOf("add_label", FALSE, uids)
         /\ IF Entry # NoExc
              THEN /\ rdRes' = RdRaised(Entry)
                   /\ rdOps' = <<>>
                   /\ rdOuts' = <<>>
              ELSE \E outs \in OneOff(Len(uids), NoExc, StoreOutcomes) :
                     /\ rdOuts' = outs
                     /\ rdOps' = <<Key("SELECT")>>
                                 \o [k \in 1 .. Len(uids) |->
                                       <<"STORE", Encode(uids[k]),
                                         "+X-GM-LABELS", "label">>]
                     /\ rdRes' = IF \A k \in 1 .. Len(outs) :
                                      outs[k] = NoExc \/ LabelCatches(outs[k])
                                   THEN RdReturned(<<>>)
                                   ELSE RdRaised("IMAP4.error")
    /\ rdIds' = <<>>
    /\ UNCHANGED outsideReader
    /\ UNCHANGED <<fetch_days, inbox, rdConn, rdAuth, rdHeld>>

(***************************************************************************)
(* run_once() after run_once() on one mailbox                              *)
(***************************************************************************)
\* run_once() calls in one run
MaxRuns == 2
\* days that pass during one run
MaxDaysPassed == 2

RunsInit ==
    /\ runMark \in BOOLEAN
    /\ runNow = Today
    /\ runs = <<>>

\* a run_once() that ended before it had a list of emails
NoFetch == [uids |-> <<>>, fetched |-> FALSE, clean |-> FALSE,
            marked |-> FALSE]

\* reader.mark_as_read(uids) against the server: the stores up to the
\* first one that raises
StoresDone(outs) ==
    LET stops == {k \in 1 .. Len(outs) : outs[k] # NoExc}
    IN  IF stops = {} THEN outs
        ELSE SubSeq(outs, 1, CHOOSE k \in stops : \A m \in stops : k <= m)

\* run_once(): _fetch_emails(), pipeline.process(emails) and, when
\* emails_processed > 0 and mark_as_read, _mark_emails_processed(emails),
\* each mail step in a reader session of its own
RunOnceCycle ==
    /\ Len(runs) < MaxRuns
    /\ \E co \in ReaderConnectOutcomes, search \in {"raise", "NO", "OK"} :
         LET criteria == BuildSearchCriteria(TRUE, fetch_days, runNow)
             ids == IF search = "OK" THEN SearchResult(inbox, criteria)
                    ELSE <<>>
         IN
         IF co # "ok" \/ search = "raise"
           THEN /\ runs' = Append(runs, NoFetch)
                /\ UNCHANGED inbox
           ELSE \E outs \in OneOff(Len(ids), GoodFetch, FetchOutcomes),
                   processed \in BOOLEAN :
                  LET emails == FetchLoop(ids, outs, Len(ids)).emails
                      fetchedBox == SeenAfterFetch(inbox, ids, outs, Len(ids))
                      result == PlaceholderProcess(emails)
                      run == [uids |-> Uids(emails),
                              fetched |-> TRUE,
                              clean |-> search = "OK"
                                        /\ Len(emails) = Len(ids),
                              marked |-> FALSE]
                  IN
                  IF processed /\ result.emails_processed > 0 /\ runMark
                    THEN \E mo \in ReaderConnectOutcomes,
                            stores \in OneOff(Len(emails), NoExc,
                                              StoreOutcomes) :
                           LET done == IF mo = "ok" THEN StoresDone(stores)
                                       ELSE <<>>
                           IN
                           /\ inbox' = SeenAfterStore(fetchedBox,
                                                      Uids(emails), done)
                           /\ runs' = Append(runs,
                                  [run EXCEPT !.marked =
                                     /\ mo = "ok"
                                     /\ \A k \in 1 .. Len(stores) :
                                          stores[k] = NoExc])
                    ELSE /\ inbox' = fetchedBox
                         /\ runs' = Append(runs, run)
    /\ UNCHANGED outsideRuns
    /\ UNCHANGED <<fetch_days, rdConn, rdAuth, rdHeld, rdCall, rdRes, rdOps,
                   rdIds, rdOuts, rdCalls, runMark, runNow>>

\* a day goes by between two cycles
DayPasses ==
    /\ runNow < Today + MaxDaysPassed
    /\ runNow' = runNow + 1
    /\ UNCHANGED outsideRuns
    /\ UNCHANGED <<rdVars, runMark, runs>>

(***************************************************************************)
(* The configuration loader: ConfigLoader and get_config()                 *)
(***************************************************************************)
\* calls made on the loader in one run
MaxLoaderCalls == 3

\* config_path=None
NoPath == "None"

\* _find_config_file: the three places searched, in order
search_paths == <<"cwd/config.yaml", "parent/config.yaml", "repo/config.yaml">>

\* a path the caller names
GivenPaths == {"given.yaml"}

Paths == {search_paths[k] : k \in 1 .. Len(search_paths)} \cup GivenPaths

\* what is at a path: nothing, text that is not YAML, YAML that Config
\* rejects, or a configuration
FileStates == {"missing", "not yaml", "rejected", "valid"}

\* the files of a run; only one of the two fallback places may hold a file
FileSystems ==
    {fs \in [Paths -> FileStates] :
       /\ fs[search_paths[2]] \in {"missing", "valid"}
       /\ fs[search_paths[3]] = "missing"}

\* _find_config_file: the first path that exists, else the first path
FindConfigFile(fs) ==
    LET found == {k \in 1 .. Len(search_paths) : fs[search_paths[k]] # "missing"}
    IN  IF found = {} THEN search_paths[1]
        ELSE search_paths[CHOOSE k \in found : \A m \in found : k <= m]

\* the cache test of load with a fault: the cache is never used
CachedNever(c) == FALSE

\* load: "if self._config is not None"
Cached(c) == c # 0

\* load(config_path) on a loader whose _config is c, with made Config
\* objects constructed so far: the exception raised, the object returned,
\* the path looked at, the files opened and the new value of _config
LoadOf(c, config_path, fs, made) ==
    LET p == IF config_path = NoPath THEN FindConfigFile(fs) ELSE config_path
    IN  IF Cached(c)
          THEN [exc |-> NoExc, value |-> c, path |-> NoPath, opened |-> 0,
                config |-> c]
        ELSE IF fs[p] = "missing"
          THEN [exc |-> "FileNotFoundError", value |-> 0, path |-> p,
                opened |-> 0, config |-> c]
        ELSE IF fs[p] = "not yaml"
          THEN [exc |-> "YAMLError", value |-> 0, path |-> p, opened |-> 1,
                config |-> c]
        ELSE IF fs[p] = "rejected"
          THEN [exc |-> "ValidationError", value |-> 0, path |-> p,
                opened |-> 1, config |-> c]
        ELSE [exc |-> NoExc, value |-> made + 1, path |-> p, opened |-> 1,
              config |-> made + 1]

NoLoaderCall ==
    [op |-> "none", arg |-> NoPath, status |-> "none", exc |-> NoExc,
     value |-> 0, path |-> NoPath, configThen |-> 0, opensThen |-> 0,
     madeThen |-> 0]

LoaderInit ==
    /\ files \in FileSystems
    /\ loader_instance = 0
    /\ loader_config = 0
    /\ ldMade = 0
    /\ ldOpens = 0
    /\ ldRes = NoLoaderCall
    /\ ldPrev = NoLoaderCall
    /\ ldCalls = 0

\* a call ends: what it did is recorded and the loader's state is updated
LoaderEnds(op, arg, r) ==
    /\ loader_instance' = 1
    /\ loader_config' = r.config
    /\ ldMade' = IF r.exc = NoExc /\ r.opened = 1 THEN ldMade + 1 ELSE ldMade
    /\ ldOpens' = ldOpens + r.opened
    /\ ldRes' = [op |-> op, arg |-> arg,
                 status |-> IF r.exc = NoExc THEN "returned" ELSE "raised",
                 exc |-> r.exc, value |-> r.value, path |-> r.path,
                 configThen |-> loader_config, opensThen |-> ldOpens,
                 madeThen |-> ldMade]
    /\ ldPrev' = ldRes
    /\ ldCalls' = ldCalls + 1
    /\ UNCHANGED files
    /\ UNCHANGED outsideLoader

\* ConfigLoader().load(config_path)
LdLoad ==
    /\ ldCalls < MaxLoaderCalls
    /\ \E arg \in GivenPaths \cup {NoPath} :
         LoaderEnds("load", arg, LoadOf(loader_config, arg, files, ldMade))

\* get_config(): ConfigLoader().config, which loads from the default path
\* when nothing is cached and returns self._config
LdGetConfig ==
    /\ ldCalls < MaxLoaderCalls
    /\ LET r == IF loader_config = 0
                  THEN LoadOf(loader_config, NoPath, files, ldMade)
                  ELSE [exc |-> NoExc, value |-> loader_config,
                        path |-> NoPath, opened |-> 0,
                        config |-> loader_config]
       IN  LoaderEnds("get_config", NoPath, r)

\* reload with a fault: a failed load puts the previous object back
LdReloadKeepsOnFailure ==
    /\ ldCalls < MaxLoaderCalls
    /\ \E arg \in GivenPaths \cup {NoPath} :
         LET r == LoadOf(0, arg, files, ldMade)
         IN  LoaderEnds("reload", arg,
                        IF r.exc = NoExc THEN r
                        ELSE [r EXCEPT !.config = loader_config])

\* reload(config_path): _config = None, then load(config_path)
LdReload ==
    /\ ldCalls < MaxLoaderCalls
    /\ \E arg \in GivenPaths \cup {NoPath} :
         LoaderEnds("reload", arg, LoadOf(0, arg, files, ldMade))

(***************************************************************************)
(* One cycle's two sessions on a folder that other clients change          *)
(***************************************************************************)
\* messages in the folder when the cycle starts
MaxFolder == 3
\* arrivals and expunges by other clients between the two sessions
MaxChanges == 2

\* a folder: each message has an identity of its own and a \Seen flag; its
\* sequence number is its position
Folders ==
    UNION {[1 .. n -> BOOLEAN] : n \in 0 .. MaxFolder}

FolderOf(flags) == [i \in 1 .. Len(flags) |-> [msg |-> i, seen |-> flags[i]]]

SessionsInit ==
    /\ \E flags \in Folders : folder = FolderOf(flags)
    /\ sessPc = "start"
    /\ sessUids = <<>>
    /\ sessFetched = <<>>
    /\ sessStored = {}
    /\ sessRaised = NoExc
    /\ sessArrived = 0
    /\ sessChanges = 0

\* connection.search(None, "(UNSEEN)"): the sequence numbers of the unseen
\* messages, ascending
UnseenNumbers(f) == SelectSeq([i \in 1 .. Len(f) |-> i], LAMBDA i : ~f[i].seen)

\* the first session: _fetch_emails() fetches every message the search found
\* and keeps its sequence number as the uid; the pipeline then handles them
SessFetch ==
    /\ sessPc = "start"
    /\ LET nums == UnseenNumbers(folder)
       IN  /\ sessUids' = [k \in 1 .. Len(nums) |-> <<"str", nums[k]>>]
           /\ sessFetched' = [k \in 1 .. Len(nums) |-> folder[nums[k]].msg]
           /\ folder' = [i \in 1 .. Len(folder) |->
                           IF \E k \in 1 .. Len(nums) : nums[k] = i
                             THEN [folder[i] EXCEPT !.seen = TRUE]
                             ELSE folder[i]]
           /\ sessPc' = IF nums = <<>> THEN "done" ELSE "between"
    /\ UNCHANGED <<sessStored, sessRaised, sessArrived, sessChanges>>
    /\ UNCHANGED outsideSessions

\* a message is delivered to the folder while no session is open
Arrive ==
    /\ sessPc = "between"
    /\ sessChanges < MaxChanges
    /\ folder' = Append(folder, [msg |-> MaxFolder + sessArrived + 1,
                                 seen |-> FALSE])
    /\ sessArrived' = sessArrived + 1
    /\ sessChanges' = sessChanges + 1
    /\ UNCHANGED <<sessPc, sessUids, sessFetched, sessStored, sessRaised>>
    /\ UNCHANGED outsideSessions

\* another client deletes a message and expunges: the messages after it
\* move up by one sequence number
Expunge ==
    /\ sessPc = "between"
    /\ sessChanges < MaxChanges
    /\ \E i \in 1 .. Len(folder) :
         folder' = [k \in 1 .. (Len(folder) - 1) |->
                      IF k < i THEN folder[k] ELSE folder[k + 1]]
    /\ sessChanges' = sessChanges + 1
    /\ UNCHANGED <<sessPc, sessUids, sessFetched, sessStored, sessRaised,
                   sessArrived>>
    /\ UNCHANGED outsideSessions

\* the uids whose STORE the second session sends: all of them, or those up
\* to the first number the folder no longer has, which the server refuses
StoresSent(f, uids) ==
    LET gone == {k \in 1 .. Len(uids) : uids[k][2] > Len(f)}
    IN  IF gone = {} THEN Len(uids)
        ELSE CHOOSE k \in gone : \A m \in gone : k <= m

\* the second session: mark_as_read(uids) stores \Seen on each sequence
\* number in turn; for a number the folder does not have the server answers
\* BAD, which makes store raise, or NO, which store returns and the loop
\* ignores
SessMark ==
    /\ sessPc = "between"
    /\ \E answer \in {"BAD", "NO"} :
         LET n == IF answer = "BAD" THEN StoresSent(folder, sessUids)
                  ELSE Len(sessUids)
             took == {k \in 1 .. n : Encode(sessUids[k])[2] <= Len(folder)}
             hit == {Encode(sessUids[k])[2] : k \in took}
         IN  /\ sessStored' = {folder[i].msg : i \in hit}
             /\ folder' = [i \in 1 .. Len(folder) |->
                             IF i \in hit
                               THEN [folder[i] EXCEPT !.seen = TRUE]
                               ELSE folder[i]]
             /\ sessRaised' = IF answer = "BAD" /\ took # 1 .. n
                                THEN "IMAP4.error" ELSE NoExc
    /\ sessPc' = "done"
    /\ UNCHANGED <<sessUids, sessFetched, sessArrived, sessChanges>>
    /\ UNCHANGED outsideSessions

(***************************************************************************)
(* Specifications                                                          *)
(***************************************************************************)
\* the scheduler left as constructed, while another component is exercised
SchedulerParked ==
    /\ SchedulerInit
    /\ mode = "run_once"
    /\ cfg_enabled
    /\ cfg_mark_as_read
    /\ pipelineKind = "PlaceholderPipeline"
    /\ mailbox = <<>>

\* the sender left as constructed, while another component is exercised
SenderParked == SenderInit /\ retry_count = 0

PipelineParked ==
    PipelineInit /\ pKind = "PlaceholderPipeline" /\ pEmails = <<>>

ClockParked ==
    ClockInit /\ utc = 0 /\ localOff = 0 /\ tzOff = 0 /\ at_time = 0

ReaderParked == ReaderInit /\ fetch_days = 0 /\ inbox = <<>>

RunsParked == RunsInit /\ runMark

LoaderParked == LoaderInit /\ files = [p \in Paths |-> "missing"]

SessionsParked == SessionsInit /\ folder = <<>>

InitLoader ==
    /\ SenderParked /\ SchedulerParked /\ PipelineParked /\ ClockParked
    /\ ReaderParked
    /\ RunsParked
    /\ LoaderInit
    /\ SessionsParked

InitSessions ==
    /\ SenderParked /\ SchedulerParked /\ PipelineParked /\ ClockParked
    /\ ReaderParked
    /\ RunsParked
    /\ LoaderParked
    /\ SessionsInit

NextSessions ==
    \/ SessFetch
    \/ Arrive
    \/ Expunge
    \/ SessMark

NextLoader ==
    \/ LdLoad
    \/ LdGetConfig
    \/ LdReload

InitSender ==
    /\ SenderInit /\ SchedulerParked /\ PipelineParked /\ ClockParked
    /\ ReaderParked
    /\ RunsParked
    /\ LoaderParked
    /\ SessionsParked

InitScheduler ==
    /\ SenderParked /\ SchedulerInit /\ PipelineParked /\ ClockParked
    /\ ReaderParked
    /\ RunsParked
    /\ LoaderParked
    /\ SessionsParked

InitPipeline ==
    /\ SenderParked /\ SchedulerParked /\ PipelineInit /\ ClockParked
    /\ ReaderParked
    /\ RunsParked
    /\ LoaderParked
    /\ SessionsParked

InitClock ==
    /\ SenderParked /\ SchedulerParked /\ PipelineParked /\ ClockInit
    /\ ReaderParked
    /\ RunsParked
    /\ LoaderParked
    /\ SessionsParked

InitReader ==
    /\ SenderParked /\ SchedulerParked /\ PipelineParked /\ ClockParked
    /\ ReaderInit
    /\ RunsParked
    /\ LoaderParked
    /\ SessionsParked

InitRuns ==
    /\ SenderParked /\ SchedulerParked /\ PipelineParked /\ ClockParked
    /\ ReaderInit
    /\ RunsInit
    /\ LoaderParked
    /\ SessionsParked

NextRuns ==
    \/ RunOnceCycle
    \/ DayPasses

NextReader ==
    \/ RdConnect
    \/ RdDisconnect
    \/ RdFetchEmails
    \/ RdMarkAsRead
    \/ RdAddLabel

NextPipeline ==
    \/ PlaceholderCall
    \/ ProcessCall
    \/ ProcessStep

NextClock ==
    \/ ClockRegister
    \/ ClockTick
    \/ ClockRunPending

NextSender ==
    \/ ConnectCall
    \/ ConnectAttempt
    \/ Disconnect
    \/ SendCall
    \/ SendAttempt

NextScheduler ==
    \/ RunOnceMain
    \/ FetchConnect
    \/ FetchEmails
    \/ FetchExit
    \/ Process
    \/ MarkConnect
    \/ MarkAsRead
    \/ MarkExit
    \/ Start
    \/ StartRunning
    \/ LoopCheck
    \/ RunJob
    \/ Sleep
    \/ TriggerFires
    \/ Signal
    \/ Stop

\* the scheduler of a process that calls start() more than once
NextRestart ==
    \/ RunOnceMain
    \/ FetchConnect
    \/ FetchEmails
    \/ FetchExit
    \/ Process
    \/ MarkConnect
    \/ MarkAsRead
    \/ MarkExit
    \/ Start
    \/ StartAgain
    \/ StartRunning
    \/ LoopCheck
    \/ RunJob
    \/ Sleep
    \/ TriggerFires
    \/ Signal
    \/ Stop

SpecSender == InitSender /\ [][NextSender]_vars

SpecScheduler == InitScheduler /\ [][NextScheduler]_vars

\* the steps of the single thread that runs start() and the cycles: it is
\* scheduled as long as it has a step to take
ProgramStep ==
    \/ StartRunning
    \/ LoopCheck
    \/ RunJob
    \/ Sleep
    \/ FetchConnect
    \/ FetchEmails
    \/ FetchExit
    \/ Process
    \/ MarkConnect
    \/ MarkAsRead
    \/ MarkExit

SpecSchedulerFair == SpecScheduler /\ WF_vars(ProgramStep)

SpecRestart == InitScheduler /\ [][NextRestart]_vars

SpecPipeline == InitPipeline /\ [][NextPipeline]_vars

SpecClock == InitClock /\ [][NextClock]_vars

SpecReader == InitReader /\ [][NextReader]_vars

SpecRuns == InitRuns /\ [][NextRuns]_vars

SpecLoader == InitLoader /\ [][NextLoader]_vars

SpecSessions == InitSessions /\ [][NextSessions]_vars

(***************************************************************************)
(* Properties of the EmailSender                                           *)
(***************************************************************************)
\* the failures the design calls transient: timeouts and generic I/O errors
Transient(e) == e \in {"TimeoutError", "OSError"}

\* every attempt recorded in h failed with a transient error
AllTransientFailures(h) ==
    \A i \in 1 .. Len(h) : h[i].stage # "ok" /\ Transient(h[i].exc)

FrontOf(h) == SubSeq(h, 1, Len(h) - 1)

InConnect == sPc = "connect" \/ sRes.op = "connect"
InSend == sPc = "send" \/ sRes.op = "send"

\* C1: for retry_count R >= 0 and k <= R, when the first k connection
\* attempts fail transiently the call goes on to attempt k+1, and when that
\* attempt succeeds connect() has returned after exactly k+1 invocations of
\* smtplib.SMTP and exactly k sleeps, holding the session of attempt k+1.
C1_ConnectRetriesThenSucceeds ==
    (retry_count >= 0 /\ InConnect) =>
      /\ (AllTransientFailures(sHist) /\ Len(sHist) <= retry_count)
           => sPc = "connect"
      /\ ( /\ Len(sHist) >= 1
           /\ Len(sHist) - 1 <= retry_count
           /\ sHist[Len(sHist)].stage = "ok"
           /\ AllTransientFailures(FrontOf(sHist)) )
           => /\ sPc = "idle"
              /\ sRes = Returned("connect")
              /\ sSmtpCalls = Len(sHist)
              /\ sSleeps = Len(sHist) - 1
              /\ sHist[Len(sHist)].sess # 0
              /\ sender_connection = sHist[Len(sHist)].sess

\* two transient failures, then success on the third attempt
C1_Witness ==
    /\ sRes = Returned("connect")
    /\ Len(sHist) = 3
    /\ AllTransientFailures(FrontOf(sHist))
    /\ sSmtpCalls = 3
    /\ sSleeps = 2

\* C2: for retry_count R >= 0, when every connection attempt fails with a
\* transient error, connect() makes exactly R+1 attempts and R sleeps and
\* then raises the error of the last attempt (and it raises a transient
\* error only then).
C2_ConnectExhaustsRetries ==
    (retry_count >= 0 /\ InConnect /\ Len(sHist) >= 1
       /\ AllTransientFailures(sHist)) =>
      /\ Len(sHist) = retry_count + 1
           => /\ sPc = "idle"
              /\ sRes = Raised("connect", sHist[Len(sHist)].exc)
              /\ sSmtpCalls = retry_count + 1
              /\ sSleeps = retry_count
      /\ sRes.status = "raised" => Len(sHist) = retry_count + 1

\* retry_count = 2, three transient failures, the last one raised
C2_Witness ==
    /\ retry_count = 2
    /\ sRes.op = "connect"
    /\ sRes.status = "raised"
    /\ Len(sHist) = 3
    /\ AllTransientFailures(sHist)
    /\ sSleeps = 2

\* C3: a non-transient failure of an attempt of connect() or send() ends
\* the call at once: it is the last attempt, the call has raised that
\* error, and no sleep followed it.
C3_NonTransientPropagates ==
    (InConnect \/ InSend) =>
      \A i \in 1 .. Len(sHist) :
        (sHist[i].stage # "ok" /\ ~Transient(sHist[i].exc))
          => /\ i = Len(sHist)
             /\ sPc = "idle"
             /\ sRes.status = "raised"
             /\ sRes.exc = sHist[i].exc
             /\ sSleeps <= i - 1

\* C4: send() fails with the "not connected" error and submits nothing
\* unless a connect() has returned since construction or the last
\* disconnect().
C4_SendRequiresSuccessfulConnect ==
    (InSend /\ ~sConnectedOk) =>
      /\ sPc = "idle"
      /\ sRes = Raised("send", "RuntimeError")
      /\ sSubmits = 0

\* C5: with retry_count R >= 0, send() invokes send_message at most R+1
\* times, sleeps exactly between consecutive attempts, returns on the first
\* success, raises the last error after R+1 transient failures, and never
\* calls smtplib.SMTP nor replaces the session it holds.
C5_SendBoundedRetry ==
    (retry_count >= 0 /\ InSend) =>
      /\ sSubmits <= retry_count + 1
      /\ sSubmits = Len(sHist)
      /\ sPc = "send" => sSleeps = sSubmits
      /\ (sPc = "idle" /\ sSubmits > 0) => sSleeps = sSubmits - 1
      /\ \A i \in 1 .. Len(sHist) :
           sHist[i].stage = "ok"
             => i = Len(sHist) /\ sRes = Returned("send")
      /\ sRes.status = "returned" => sHist[Len(sHist)].stage = "ok"
      /\ (AllTransientFailures(sHist) /\ sConnAtCall # 0)
           => IF Len(sHist) <= retry_count
                THEN sPc = "send"
                ELSE sRes = Raised("send", sHist[Len(sHist)].exc)
      /\ sTotalSmtp = sSmtpAtCall
      /\ sSmtpCalls = 0
      /\ sender_connection = sConnAtCall

\* retry_count = 2 and three timeouts: send() raised after three submits
C5_Witness ==
    /\ retry_count = 2
    /\ sRes = Raised("send", "TimeoutError")
    /\ sSubmits = 3
    /\ sSleeps = 2
    /\ sender_connection # 0

(***************************************************************************)
(* Properties of the scheduler cycle and the daemon loop                   *)
(***************************************************************************)
\* the kinds of the events of a log
Kinds(l) == [k \in 1 .. Len(l) |-> l[k][1]]

IsPrefix(a, b) == Len(a) <= Len(b) /\ a = SubSeq(b, 1, Len(a))

FullCycle == <<"open", "fetch", "close", "process", "open", "mark", "close">>

\* C6: the mark-as-read step of a cycle is taken if and only if the
\* pipeline result has emails_processed > 0 and mark_as_read is set; it is
\* taken at most once, with the ids of the fetched messages in fetch order;
\* otherwise neither the step nor a reader.mark_as_read call occurs.
C6_MarkIffProcessedAndEnabled ==
    /\ Len(cMarkSteps) <= 1
    /\ Len(cReaderMarks) <= Len(cMarkSteps)
    /\ \A k \in 1 .. Len(cMarkSteps) :
         cMarkSteps[k] = [i \in 1 .. Len(cEmails) |-> cEmails[i].uid]
    /\ \A k \in 1 .. Len(cReaderMarks) :
         cReaderMarks[k] = [i \in 1 .. Len(cEmails) |-> cEmails[i].uid]
    /\ cResult = NoResult => cMarkSteps = <<>>
    /\ cResult # NoResult =>
         (Len(cMarkSteps) = 1
            <=> (cResult.emails_processed > 0 /\ cfg_mark_as_read))
    /\ (~cfg_mark_as_read \/ cResult.emails_processed <= 0)
         => cMarkSteps = <<>> /\ cReaderMarks = <<>>

\* a cycle that fetched two messages and marked both, once
C6_Witness ==
    /\ cOutcome.status = "returned"
    /\ cfg_mark_as_read
    /\ Len(cEmails) = 2
    /\ cReaderMarks = <<<< <<"str", 1>>, <<"str", 2>> >>>>

\* C7: the events of one cycle occur in the order open, fetch with
\* unread_only, close, process, open, mark, close; the marking session is
\* not the fetching session; no session of the cycle is open while
\* pipeline.process executes.
C7_CycleEventOrder ==
    /\ IsPrefix(Kinds(log), FullCycle)
    /\ Len(log) >= 2 => log[2] = <<"fetch", log[1][2], TRUE>>
    /\ Len(log) >= 3 => log[3][2] = log[1][2]
    /\ Len(log) >= 5 => log[5][2] # log[1][2]
    /\ Len(log) >= 6 => log[6][2] = log[5][2]
    /\ Len(log) >= 7 => log[7][2] = log[5][2]
    /\ cPc = "process" =>
         /\ Kinds(log) = SubSeq(FullCycle, 1, 3)
         /\ reader_connection = 0
         /\ cSessions \cap rOpen = {}
    /\ cOutcome.status = "returned" =>
         Kinds(log) = IF cMarkSteps # <<>> THEN FullCycle
                      ELSE SubSeq(FullCycle, 1, 4)

\* a cycle that went through all seven events
C7_Witness ==
    /\ cOutcome.status = "returned"
    /\ Len(log) = 7
    /\ log[6][1] = "mark"

\* C8: whenever run_once() is not executing, no reader session remains
\* open.
C8_SessionsReleased ==
    cPc = "idle" => rOpen = {} /\ reader_connection = 0

\* C9: in daemon mode at most one run_once() is in progress, and none is
\* in progress whenever start() is anywhere but inside the job it waits
\* for: the cycle ends before the loop condition is evaluated again.
C9_OneCycleAtATime ==
    mode = "daemon" =>
      /\ active <= 1
      /\ dPc # "in_job" => active = 0 /\ cPc = "idle"
      /\ cPc # "idle" => cCaller = "job"

\* the loop is back at its condition after a cycle that marked its messages
C9_Witness ==
    /\ mode = "daemon"
    /\ dPc = "while"
    /\ cycles >= 1
    /\ cOutcome.status = "returned"
    /\ Len(cReaderMarks) = 1
    /\ active = 0

\* C10: an exception that ends a scheduled run_once() is caught by _job:
\* start() does not raise, the running flag, the signal handlers and the
\* registered job are left as they were, the error is logged and start()
\* is back in run_pending(), from where the loop goes on.
C10_JobFailureIsContained ==
    /\ [][ (cCaller = "job" /\ cPc # "idle" /\ cPc' = "idle"
              /\ cOutcome'.status = "raised")
           => /\ running' = running
              /\ jobs' = jobs
              /\ handlers' = handlers
              /\ dPc' = "run_pending"
              /\ loggedErrors' = loggedErrors + 1 ]_vars
    /\ [](dPc # "crashed")

\* a new scheduled cycle is running after an earlier one failed
C10_Witness ==
    /\ mode = "daemon"
    /\ loggedErrors >= 1
    /\ cycles = 2
    /\ cCaller = "job"
    /\ cPc = "fetch"

InLoop == dPc \in {"while", "run_pending", "in_job"}

\* C11: a signal or stop() sets the running flag to false; once the flag
\* is false inside the polling loop, the loop condition can only lead out
\* of start(), and start() eventually returns.
C11_ShutdownEndsLoop ==
    /\ [][shutdownBy' # shutdownBy => ~running']_vars
    /\ [][(dPc = "while" /\ ~running /\ dPc' # dPc)
            => dPc' = "returned"]_vars
    /\ ((InLoop /\ ~running) ~> dPc = "returned")

\* start() has returned after a signal or stop()
C11_Witness ==
    /\ mode = "daemon"
    /\ cfg_enabled
    /\ shutdownBy # "none"
    /\ ~running
    /\ dPc = "returned"

\* C12: a signal or stop() leaves the cycle in flight untouched; that
\* cycle still ends, with its mark-as-read step when the marking condition
\* holds, and start() returns only when no cycle is in flight.
C12_ShutdownWaitsForCycle ==
    /\ [][shutdownBy' # shutdownBy
            => UNCHANGED <<cycleVars, dPc, readerVars>>]_vars
    /\ [](dPc = "returned" => cPc = "idle" /\ active = 0)
    /\ []((~running /\ cCaller = "job" /\ cOutcome.status = "returned"
             /\ cResult.emails_processed > 0 /\ cfg_mark_as_read)
            => Kinds(log) = FullCycle)
    /\ ((cPc # "idle" /\ cCaller = "job" /\ ~running) ~> cPc = "idle")

\* the flag is already false and the cycle is at its mark-as-read step
C12_Witness ==
    /\ cCaller = "job"
    /\ shutdownBy # "none"
    /\ ~running
    /\ dPc = "in_job"
    /\ cPc = "mark"

\* C13: with schedule.enabled false, start() returns at once: no job is
\* registered, no handler installed, no cycle run, the flag stays false.
C13_DisabledStartHasNoEffect ==
    (mode = "daemon" /\ ~cfg_enabled) =>
      /\ dPc \in {"init", "returned"}
      /\ jobs = 0
      /\ ~handlers
      /\ ~running
      /\ shutdownBy = "none"
      /\ cycles = 0
      /\ cPc = "idle"
      /\ rNext = 0
      /\ fires = 0

\* start() has returned with the schedule disabled
C13_Witness ==
    /\ mode = "daemon"
    /\ ~cfg_enabled
    /\ dPc = "returned"

\* the time of day, in the configured timezone, at instant t
TzTimeOfDay(t) == (t + tzOff) % DayLen

C15_OneCyclePerFiring ==
    /\ [](mode = "daemon"
            => fires = cycles + jobsLeft + (IF due THEN 1 ELSE 0))
    /\ [][(mode = "daemon" /\ cycles' # cycles)
            => /\ dPc = "run_pending"
               /\ dPc' = "in_job"
               /\ cycles' = cycles + 1]_vars
    /\ [][(dPc = "while" /\ running /\ due /\ dPc' # dPc)
            => /\ dPc' = "run_pending"
               /\ jobsLeft' = 1
               /\ ~due']_vars
    /\ [][(dPc = "run_pending" /\ jobsLeft = 0 /\ dPc' # dPc)
            => /\ dPc' = "while"
               /\ cycles' = cycles]_vars

\* two firings, two cycles, and the loop is back at its condition
C15_Witness ==
    /\ mode = "daemon"
    /\ running
    /\ fires = 2
    /\ cycles = 2
    /\ ~due
    /\ dPc = "while"

\* C16: in run-once mode the exit status is non-zero exactly when the
\* result returned by run_once() has a non-empty errors list.
C16_ExitStatusReflectsErrors ==
    (mode = "run_once" /\ cCaller = "main" /\ cOutcome.status = "returned")
      => (MainExitStatus(cOutcome, cResult) # 0
            <=> cResult.errors # <<>>)

(***************************************************************************)
(* Properties of the pipelines                                             *)
(***************************************************************************)
InProduction == pKind = "EmailProcessingPipeline"

\* positions of the handled messages whose body raised
FailedPositions ==
    SelectSeq([k \in 1 .. Len(pOutcomes) |-> k],
              LAMBDA k : pOutcomes[k] # NoExc)

\* C17: an exception raised while one message is handled is recorded in
\* errors with that message's id, in input order; the messages are handled
\* in input order, a failure does not stop the loop, and process() does
\* not raise because of it.
C17_PerMessageFailureIsolated ==
    InProduction =>
      /\ pRaised # NoExc => pHandled = <<>>
      /\ pHandled = [k \in 1 .. Len(pHandled) |-> pEmails[k].uid]
      /\ Len(pErrors) = Len(FailedPositions)
      /\ \A j \in 1 .. Len(pErrors) :
           /\ pErrors[j][2] = pEmails[FailedPositions[j]].uid
           /\ pErrors[j][3] = pOutcomes[FailedPositions[j]]
      /\ (pPc = "loop" /\ pOutcomes # <<>>) => Len(pHandled) < Len(pEmails)
      /\ (pPc = "done" /\ pRaised = NoExc) =>
           /\ Len(pHandled) = Len(pEmails)
           /\ pResult.errors = pErrors

\* the first of several messages failed and the later ones were handled
C17_Witness ==
    /\ InProduction
    /\ pPc = "done"
    /\ Len(pEmails) >= 2
    /\ Len(pOutcomes) = Len(pEmails)
    /\ pOutcomes[1] # NoExc
    /\ pOutcomes[Len(pEmails)] = NoExc
    /\ Len(pResult.errors) = 1
    /\ pResult.emails_sent = Len(pEmails) - 1

\* C18: the transformed content of each message is delivered through the
\* dispatcher, and emails_sent is the number of messages whose send
\* succeeded.
C18_SentCountsDeliveries ==
    (InProduction /\ pPc = "done" /\ pRaised = NoExc) =>
      /\ pResult.emails_sent = Len(pSends)
      /\ Len(pSends) + Len(pResult.errors) = Len(pEmails)

\* C19: process([]) returns (0, 0, []) without creating a client and
\* without any completion or dispatcher call.
C19_EmptyInputTouchesNothing ==
    (InProduction /\ pEmails = <<>>) =>
      /\ ~pClient
      /\ pCompletions = 0
      /\ pSends = <<>>
      /\ pHandled = <<>>
      /\ pRaised = NoExc
      /\ pPc \in {"idle", "done"}
      /\ pPc = "done" => pResult = ProcessingResult(0, 0, <<>>)

\* process([]) has returned
C19_Witness ==
    /\ InProduction
    /\ pEmails = <<>>
    /\ pPc = "done"
    /\ pResult.emails_processed = 0

\* C20: PlaceholderPipeline.process returns emails_processed equal to the
\* length of its input, emails_sent = 0 and no errors, the empty input
\* included.
C20_PlaceholderCounts ==
    (pKind = "PlaceholderPipeline" /\ pPc = "done") =>
      /\ pRaised = NoExc
      /\ pResult.emails_processed = Len(pEmails)
      /\ pResult.emails_sent = 0
      /\ pResult.errors = <<>>

\* the placeholder has processed a batch of two
C20_Witness ==
    /\ pKind = "PlaceholderPipeline"
    /\ pPc = "done"
    /\ Len(pEmails) = 2
    /\ pResult.emails_processed = 2

\* C21: every ProcessingResult returned by either pipeline, whatever the
\* input and whichever messages failed, has
\* 0 <= emails_sent <= emails_processed.
C21_SentWithinProcessed ==
    /\ pSent <= pIdx
    /\ (pPc = "done" /\ pRaised = NoExc) =>
         /\ 0 <= pResult.emails_sent
         /\ pResult.emails_sent <= pResult.emails_processed

\* a batch in which some messages failed and some did not
C21_Witness ==
    /\ InProduction
    /\ pPc = "done"
    /\ pRaised = NoExc
    /\ 0 < pResult.emails_sent
    /\ pResult.emails_sent < pResult.emails_processed

\* C29: run_once() leaves the scheduler's own state alone: none of its
\* steps, whether it ends by returning or by raising, changes the running
\* flag, the configuration, the pipeline or the registered triggers.
C29_RunOnceKeepsSchedulerState ==
    [][cPc' # cPc => UNCHANGED <<running, handlers, jobs, cfgVars>>]_vars

\* a cycle started by the daemon has raised and the daemon is as before
C29_Witness ==
    /\ cCaller = "job"
    /\ cPc = "idle"
    /\ cOutcome.status = "raised"
    /\ running
    /\ jobs = 1

\* C27: EmailSender.disconnect() never raises: a failing quit() is
\* swallowed, and after disconnect() the sender holds no connection,
\* whether or not quit() succeeded and whether or not one was held.
C27_SenderDisconnectNeverRaises ==
    sRes.op = "disconnect" =>
      /\ sRes = Returned("disconnect")
      /\ sender_connection = 0
      /\ sPc = "idle"
      /\ (sQuit = NotCalled <=> sConnAtCall = 0)

\* disconnect() has returned although quit() failed
C27_Witness ==
    /\ sRes = Returned("disconnect")
    /\ sConnAtCall # 0
    /\ sQuit \notin {NotCalled, NoExc}
    /\ sender_connection = 0

\* C32: EmailProcessingPipeline.process() on a non-empty input counts every
\* message once, as sent or as failed: after each iteration the two counts
\* add up to the messages handled, and in the returned result
\* emails_sent + len(errors) = emails_processed = len(input).
C32_EachMessageCountedOnce ==
    InProduction =>
      /\ pSent + Len(pErrors) = pIdx
      /\ (pPc = "done" /\ pRaised = NoExc /\ pEmails # <<>>) =>
           /\ pResult.emails_sent + Len(pResult.errors)
                = pResult.emails_processed
           /\ pResult.emails_processed = Len(pEmails)

\* a full batch in which two messages failed and the others were sent
C32_Witness ==
    /\ InProduction /\ pPc = "done" /\ pRaised = NoExc
    /\ Len(pEmails) = MaxBatch
    /\ Len(pResult.errors) = 2
    /\ pResult.emails_sent = Len(pEmails) - 2

\* C34: a signal delivered once the handlers are installed, or a stop()
\* issued once start() is under way, is never lost: whenever a shutdown has
\* been requested, start() eventually returns, also when the request came
\* before the first evaluation of the loop condition.
C34_ShutdownRequestNeverLost ==
    (shutdownBy # "none") ~> (dPc \in {"returned", "crashed"})

\* C35: whatever start() and stop() calls a process makes, at most one
\* daily job is registered at any time, and the cycles started never
\* outnumber the firings of the trigger.
C35_AtMostOneJobRegistered ==
    mode = "daemon" =>
      /\ jobs <= 1
      /\ cycles + jobsLeft <= fires

\* the cycle has ended by raising
CycleRaised == cPc = "idle" /\ cOutcome.status = "raised"

KindSet(l) == {l[k][1] : k \in 1 .. Len(l)}

\* C36: when run_once() raises before the pipeline has returned a result,
\* no mark session is opened, mark_as_read is not called and the messages
\* handed to the pipeline are still unread on the server; when the failure
\* was in the fetch session, pipeline.process was not invoked either; when
\* the mark step raises, run_once() raises although the pipeline's result
\* for the batch exists.
C36_FailurePathsOfRunOnce ==
    /\ (CycleRaised /\ cResult = NoResult) =>
         /\ "mark" \notin KindSet(log)
         /\ cMarkSteps = <<>>
         /\ cReaderMarks = <<>>
         /\ Cardinality(cSessions) <= 1
         /\ \A k \in 1 .. Len(cEmails) :
              ~mailbox[Encode(cEmails[k].uid)[2]]
    /\ (CycleRaised /\ cResult = NoResult
          /\ ("fetch" \notin KindSet(log) \/ cExc # NoExc)) =>
         "process" \notin KindSet(log)
    /\ (cPc = "idle" /\ cMarkSteps # <<>> /\ cExc # NoExc) =>
         /\ cOutcome.status = "raised"
         /\ cResult.emails_processed > 0

\* C37: for every retry_count the configuration accepts, a connect(), and
\* a send() on a sender that holds a connection, ends only after at least
\* one attempt, and when it raises, it raises the error of its last attempt.
C37_AtLeastOneAttempt ==
    (/\ sPc = "idle"
     /\ \/ sRes.op = "connect"
        \/ sRes.op = "send" /\ sConnAtCall # 0) =>
      /\ Len(sHist) >= 1
      /\ sRes.status = "raised" => sRes.exc = sHist[Len(sHist)].exc
      /\ sRes.status = "returned" => sHist[Len(sHist)].stage = "ok"

\* C38: a sender never has more than one relay session open, and when
\* connect() has raised, none is open.
C38_AtMostOneSessionOpen ==
    /\ Cardinality(sOpen) <= 1
    /\ (sPc = "idle" /\ sRes = Raised("connect", sRes.exc)) => sOpen = {}

\* C39: once the flag has been set to false inside the polling loop, the
\* loop starts at most one more run_once() before start() returns; the loop
\* condition that finds the flag false leads straight out of start(), and
\* no cycle is started after start() has returned.
C39_AtMostOneCycleAfterShutdown ==
    /\ [](lateCycles <= 1)
    /\ [][(dPc = "while" /\ ~running /\ dPc' # dPc)
            => (dPc' = "returned" /\ cycles' = cycles)]_vars
    /\ [][(mode = "daemon" /\ dPc = "returned")
            => (dPc' = "returned" /\ cycles' = cycles)]_vars

\* the flag was cleared during run_pending(), the due job still ran its
\* cycle, and start() has returned
C39_Witness ==
    /\ mode = "daemon"
    /\ shutdownBy # "none"
    /\ lateCycles = 1
    /\ dPc = "returned"

(***************************************************************************)
(* Properties of the reader                                                *)
(***************************************************************************)
\* the last call was a fetch_emails() that got as far as the search
Searched == rdCall.op = "fetch_emails" /\ Len(rdOps) >= 2

\* the criteria string and the status of that search
Criteria == rdOps[2][2]
SearchStatus == rdOps[2][3]

Positions(q, word) == {k \in 1 .. Len(q) : q[k][1] = word}

\* C22: the criteria are exactly ALL without unread_only and with
\* fetch_days <= 0, exactly (UNSEEN) with unread_only and fetch_days <= 0,
\* and otherwise one parenthesised group that holds UNSEEN iff unread_only,
\* a SINCE clause iff fetch_days > 0, and UNSEEN before SINCE.
C22_SearchCriteriaShape ==
    Searched =>
      LET q == Criteria
          u == rdCall.unread_only
      IN
      /\ (~u /\ fetch_days <= 0) => q = <<Key("ALL")>>
      /\ (u /\ fetch_days <= 0) => q = <<Key("("), Key("UNSEEN"), Key(")")>>
      /\ (u \/ fetch_days > 0) =>
           /\ Positions(q, "(") = {1}
           /\ Positions(q, ")") = {Len(q)}
           /\ Positions(q, "ALL") = {}
           /\ (Positions(q, "UNSEEN") # {} <=> u)
           /\ (Positions(q, "SINCE") # {} <=> fetch_days > 0)
           /\ \A a \in Positions(q, "UNSEEN"), b \in Positions(q, "SINCE") :
                a < b
           /\ Len(q) = 2 + (IF u THEN 1 ELSE 0)
                         + (IF fetch_days > 0 THEN 1 ELSE 0)

\* a search for unread messages of the last fetch_days days
C22_Witness ==
    /\ Searched
    /\ rdCall.unread_only
    /\ fetch_days > 0
    /\ Len(Criteria) = 4

\* position k of the last search result was fetched and parsed
FetchedAndParsed(k) ==
    /\ rdOuts[k].status = "OK"
    /\ DecodeHeader(rdOuts[k].form.subject).exc = NoExc

\* C23: a failure while fetching or parsing one message does not end the
\* batch: the list returned holds, in search order, exactly the ids whose
\* fetch and parse succeeded; a search answered with a status other than
\* OK gives the empty list and no error.
C23_FetchSkipsFailedMessages ==
    Searched =>
      /\ SearchStatus = "NO" => rdRes = RdReturned(<<>>)
      /\ SearchStatus = "OK" =>
           /\ rdRes.status = "returned"
           /\ Len(rdOuts) = Len(rdIds)
           /\ LET good == SelectSeq([k \in 1 .. Len(rdIds) |-> k],
                                    FetchedAndParsed)
              IN  Uids(rdRes.value)
                    = [j \in 1 .. Len(good) |-> Decode(rdIds[good[j]])]

\* the first of two messages could not be fetched, the second is returned
C23_Witness ==
    /\ Searched
    /\ SearchStatus = "OK"
    /\ Len(rdIds) = 2
    /\ rdOuts[1].status = "raise"
    /\ rdOuts[2].status = "OK"
    /\ Uids(rdRes.value) = <<Decode(rdIds[2])>>

\* C24: mark_as_read is best-effort per id: a protocol error on one store
\* does not keep the later ids from their store and is not raised; without
\* errors there is exactly one "+FLAGS \Seen" store per id, in list order.
C24_MarkAsReadBestEffort ==
    (rdCall.op = "mark_as_read" /\ rdOps # <<>>) =>
      /\ rdRes.status = "returned"
      /\ Len(rdOps) = 1 + Len(rdCall.uids)
      /\ \A k \in 1 .. Len(rdCall.uids) :
           rdOps[k + 1] = <<"STORE", Encode(rdCall.uids[k]),
                            "+FLAGS", "\\Seen">>

\* C25: fetch_emails, mark_as_read and add_label fail with the "not
\* connected" error and send nothing to the server whenever no session is
\* held, that is before the first connect() that succeeded and after a
\* disconnect().
C25_NotConnectedWithoutSession ==
    (rdCall.op \in {"fetch_emails", "mark_as_read", "add_label"} /\ ~rdHeld)
      => /\ rdRes = RdRaised("RuntimeError")
         /\ rdOps = <<>>

\* C26: disconnect() without a connection does nothing and raises nothing;
\* after any disconnect(), a failed logout included, the reader holds no
\* connection; a second disconnect() in a row changes nothing.
C26_ReaderDisconnectIdempotent ==
    /\ [](rdCall.op = "disconnect" => rdConn = 0 /\ ~rdAuth /\ ~rdHeld)
    /\ []((rdCall.op = "disconnect" /\ rdCall.conn = 0)
            => rdRes = RdReturned(<<>>) /\ rdOps = <<>>)
    /\ [][(rdCall.op = "disconnect" /\ rdCall'.op = "disconnect"
             /\ rdCalls' # rdCalls)
            => /\ UNCHANGED <<rdConn, rdAuth, rdHeld, inbox>>
               /\ rdRes' = RdReturned(<<>>)
               /\ rdOps' = <<>>]_vars

\* a connect(), a disconnect() and a second disconnect() in a row
C26_Witness ==
    /\ rdCall.op = "disconnect"
    /\ rdCall.conn = 0
    /\ rdConn = 0
    /\ rdCalls >= 3

\* C28: a message that was fetched is returned whatever its headers, date
\* or payload look like: a header that cannot be decoded, an unparsable
\* Date and an undecodable payload give the field's default, they do not
\* drop the message.
C28_DegradedMessagesAreKept ==
    (Searched /\ SearchStatus = "OK" /\ rdRes.status = "returned") =>
      \A k \in 1 .. Len(rdOuts) :
        rdOuts[k].status = "OK" =>
          \E j \in 1 .. Len(rdRes.value) :
            /\ rdRes.value[j].uid = Decode(rdIds[k])
            /\ rdOuts[k].form.date # "valid" => rdRes.value[j].date = "now"

\* C30: without marking, and with nobody else touching the mailbox, two
\* run_once() cycles in a row fetch the same unread messages and hand the
\* same ids to the pipeline; with marking, a cycle that processed
\* something and marked it leaves none of its messages to the next cycle.
C30_RefetchUnlessMarked ==
    \A k \in 1 .. (Len(runs) - 1) :
      /\ (~runMark /\ runs[k].clean /\ runs[k + 1].clean)
           => runs[k + 1].uids = runs[k].uids
      /\ (runMark /\ runs[k].marked /\ runs[k + 1].fetched)
           => \A a \in 1 .. Len(runs[k].uids),
                 b \in 1 .. Len(runs[k + 1].uids) :
                runs[k].uids[a] # runs[k + 1].uids[b]

(***************************************************************************)
(* Properties of the configuration loader                                  *)
(***************************************************************************)
\* C31: once a load has succeeded, load() with any path and get_config()
\* return the cached Config object and open no file; a reload() that returns
\* gives an object constructed by that call and caches it; a call that
\* raises leaves nothing cached.
C31_LoaderCachesOneConfig ==
    /\ (ldRes.op \in {"load", "get_config"} /\ ldRes.configThen # 0) =>
         /\ ldRes.status = "returned"
         /\ ldRes.value = ldRes.configThen
         /\ loader_config = ldRes.configThen
         /\ ldOpens = ldRes.opensThen
         /\ ldMade = ldRes.madeThen
    /\ (ldRes.op = "reload" /\ ldRes.status = "returned") =>
         /\ ldRes.value > ldRes.madeThen
         /\ ldRes.value # ldRes.configThen
         /\ loader_config = ldRes.value
    /\ ldRes.status = "raised" => loader_config = 0
    /\ ldRes.status = "returned" => loader_config = ldRes.value

\* a load() that read a file, then a load() naming a path whose file cannot
\* be loaded, answered with the cached object
C31_Witness ==
    /\ ldPrev.op = "load" /\ ldPrev.status = "returned" /\ ldPrev.configThen = 0
    /\ ldRes.op = "load" /\ ldRes.arg \in GivenPaths
    /\ files[ldRes.arg] # "valid"
    /\ ldRes.value = ldPrev.value

\* C40: a reload() that raises leaves no configuration cached, not the one
\* loaded before, and the get_config() after it loads from the default
\* search path.
C40_FailedReloadClearsCache ==
    /\ (ldRes.op = "reload" /\ ldRes.status = "raised") => loader_config = 0
    /\ (ldPrev.op = "reload" /\ ldPrev.status = "raised"
          /\ ldRes.op = "get_config") =>
         /\ ldRes.configThen = 0
         /\ ldRes.path = FindConfigFile(files)
         /\ ldRes.status = "returned" =>
              /\ ldRes.value > ldRes.madeThen
              /\ ldOpens = ldRes.opensThen + 1

\* a load, a reload of a path that cannot be loaded, and a get_config()
\* that loads the default file again
C40_Witness ==
    /\ ldPrev.op = "reload" /\ ldPrev.status = "raised"
    /\ ldPrev.configThen # 0
    /\ ldRes.op = "get_config" /\ ldRes.status = "returned"
    /\ ldRes.value # ldPrev.configThen

(***************************************************************************)
(* Properties of a cycle on a folder that other clients change             *)
(***************************************************************************)
\* C33: when the mark session of a cycle has ended, it has set \Seen on no
\* message other than those the fetch session read, and on every one of
\* those that is still in the folder, whatever arrived in the folder or was
\* expunged from it between the two sessions.
C33_MarkFlagsExactlyFetched ==
    LET fetched == {sessFetched[k] : k \in 1 .. Len(sessFetched)}
        present == {folder[i].msg : i \in 1 .. Len(folder)}
    IN  (sessPc = "done" /\ sessUids # <<>>) =>
          /\ sessStored \subseteq fetched
          /\ (fetched \cap present) \subseteq sessStored

====
